---- MODULE Spec2Model ----
(***************************************************************************)
(* Prism Visuals: the rotation engine (auto_change), the sequencer         *)
(* (get_next_seq_prefix), the per-source rate limiters and the config      *)
(* store, modelled from src/src/main.rs.                                   *)
(*                                                                         *)
(* One interactive session (a process that loaded the store once and keeps *)
(* its Config in memory) and the scheduled auto-change process (a process  *)
(* per tick: load, auto_change, exit) share the store file and the         *)
(* wallpaper folder.  Time is counted in minutes.                          *)
(***************************************************************************)
EXTENDS Integers, Sequences, FiniteSets, TLC

VARIABLES
    disk,      \* the Config that config.json parses to (Config::default()
               \* while the file is missing or does not parse)
    file,      \* config.json itself: "missing", "whole", "torn" (text that
               \* does not parse) or "garbled" (bytes that are not UTF-8)
    session,   \* the interactive process: [open, cfg] (cfg is its self.config)
    pool,      \* the wallpaper folder: file key -> modification time
    bg,        \* the OS's current wallpaper: {} or {file key}
    now,       \* the clock, in minutes
    handed,    \* history: every ordinal get_next_seq_prefix ever returned
    reused,    \* history: an ordinal was returned a second time
    op,        \* history: what the last invocation did
    steps,     \* history: the number of commands and ticks run so far
    instance,  \* the Task Scheduler has an instance of the task running
    ticks,     \* the auto-change processes the task started that have not
               \* ended: the Config each of them loaded
    schedule,  \* a ScheduleFrequency and what its conversions returned
    picked,    \* a URL handed to get_full_res_url and what it returned
    cycle,     \* an auto-change process followed step by step: where it is in
               \* auto_change and what it holds
    task,      \* the task PrismVisualsAutoChange exists in the Task Scheduler
    header     \* an X-Ratelimit-Remaining value handed to
               \* parse_rate_limit_headers and the count it stored

\* the variables of the scheduler and of the pure functions
aside == <<instance, ticks, schedule, picked, cycle, task, header>>

vars ==
    <<disk, file, session, pool, bg, now, handed, reused, op, steps,
      instance, ticks, schedule, picked, cycle, task, header>>

---------------------------------------------------------------------------
(* Bounds of the model *)

\* get_next_seq_prefix is not called once next_seq_number exceeds this
MaxSeq == 3
\* auto_change is not run once auto_change_index exceeds this
MaxIndex == 4
\* the silent paths stop counting requests this far above a quota
MaxOver == 2
\* no command or tick is run after this many
MaxSteps == 4

(* Program constants *)

UnsplashQuota == 50
UnsplashLimit == 45
UnsplashWindow == 60
WallhavenQuota == 45
WallhavenLimit == 40
WallhavenWindow == 1
PexelsQuota == 200
PexelsLimit == 190
PexelsWindow == 60
RetentionMinutes == 43200
IdLen == 8

Max(a, b) == IF a >= b THEN a ELSE b
Min(a, b) == IF a <= b THEN a ELSE b

---------------------------------------------------------------------------
(* Image ids, file names *)

IdA == <<97>>
IdB == <<98>>
Ids == {IdA, IdB}

Sources == {"spotlight", "unsplash", "wallhaven", "pexels"}
Limited == {"unsplash", "wallhaven", "pexels"}

\* "{:04}": the decimal digits of n, zero-padded to width 4 (wider beyond 9999)
RECURSIVE Digits(_)
Digits(n) == IF n < 10 THEN <<48 + n>> ELSE Digits(n \div 10) \o <<48 + (n % 10)>>

RECURSIVE PadLeft(_, _)
PadLeft(s, width) == IF Len(s) >= width THEN s ELSE PadLeft(<<48>> \o s, width)

Fmt04 == 4

SeqPrefix(n) == PadLeft(Digits(n), Fmt04) \o <<95>>

TagChars(tag) ==
    CASE tag = "spotlight" -> <<115, 112, 111, 116, 108, 105, 103, 104, 116, 95>>
      [] tag = "unsplash"  -> <<117, 110, 115, 112, 108, 97, 115, 104, 95>>
      [] tag = "wallhaven" -> <<119, 97, 108, 108, 104, 97, 118, 101, 110, 95>>
      [] tag = "pexels"    -> <<112, 101, 120, 101, 108, 115, 95>>

\* &id[..8.min(id.len())]
Trunc8(id) == SubSeq(id, 1, Min(IdLen, Len(id)))

\* the sanitized title or the theme a fetch puts between the tag and the id
\* ("Title_"); the picker puts nothing there
TitleMid == <<84, 95>>
ThemeMid == <<110, 95>>
NoMid == <<>>

\* A file of the folder is known by [pre, ord, tag, mid, id]: a sequenced file
\* is "{seq_prefix}{tag}_{mid}{id}", an unsequenced one "{tag}_{mid}{id}".
FileKey(pre, ord, tag, mid, id) ==
    [pre |-> pre, ord |-> ord, tag |-> tag, mid |-> mid, id |-> id]

FileName(k) ==
    (IF k.pre THEN SeqPrefix(k.ord) ELSE <<>>) \o TagChars(k.tag) \o k.mid \o k.id

\* byte-wise order of file names, as Vec<PathBuf>::sort orders one folder
RECURSIVE LexLess(_, _)
LexLess(a, b) ==
    IF b = <<>> THEN FALSE
    ELSE IF a = <<>> THEN TRUE
    ELSE IF Head(a) # Head(b) THEN Head(a) < Head(b)
    ELSE LexLess(Tail(a), Tail(b))

RECURSIVE SortedFiles(_)
SortedFiles(S) ==
    IF S = {} THEN <<>>
    ELSE LET m == CHOOSE x \in S : \A y \in S \ {x} : LexLess(FileName(x), FileName(y))
         IN  <<m>> \o SortedFiles(S \ {m})

\* wallpapers.iter().position(|p| p == &current_wp)
Position(s, k) == CHOOSE i \in 1..Len(s) : s[i] = k

InSeq(s, k) == \E i \in 1..Len(s) : s[i] = k

\* name.len() > 5 && first four chars are ASCII digits && fifth is '_'
HasSeqPrefix(name) ==
    /\ Len(name) > 5
    /\ \A i \in 1..4 : name[i] \in 48..57
    /\ name[5] = 95

\* name.get(0..4).parse::<u32>()
ParseSeq(name) ==
    (name[1] - 48) * 1000 + (name[2] - 48) * 100 + (name[3] - 48) * 10 + (name[4] - 48)

---------------------------------------------------------------------------
(* Config *)

DefaultConfig ==
    [ source                |-> "spotlight",
      downloaded_ids        |-> <<>>,
      archive_ids           |-> <<>>,
      unsplash_key          |-> FALSE,
      requests_used         |-> 0,
      rate_limit_reset_time |-> {},
      requests_this_minute  |-> 0,
      minute_window_start   |-> {},
      pexels_key            |-> FALSE,
      requests_this_hour    |-> 0,
      hour_window_start     |-> {},
      auto_change_index     |-> 0,
      last_auto_change      |-> {},
      next_seq_number       |-> 1,
      auto_change_enabled   |-> FALSE ]

\* The state a handler threads through its steps: the process's Config, the
\* store, the folder, the wallpaper, and what the handler did so far.
World(cfg) ==
    [ cfg  |-> cfg, disk |-> disk, file |-> file, pool |-> pool, bg |-> bg,
      seqs |-> <<>>,    \* ordinals handed out, in order
      sent |-> {},      \* rate-limited sources whose API was sent a request
      allowed |-> {},   \* sources whose rate check ran and allowed
      rejected |-> {},  \* sources whose rate check ran and rejected
      reset |-> {},     \* rate checks that started a new window
      wrote |-> {},     \* files written
      spotlight |-> FALSE,  \* a silent fetch sent the Spotlight API a request
      candidates |-> 0, \* the items a fetch command was given to download
      report |-> <<>> ] \* what the command printed for each item it came to

\* save_config: fs::write of the whole Config over config.json
save_config(w) == [w EXCEPT !.disk = w.cfg, !.file = "whole"]

\* get_next_seq_prefix: returns next_seq_number and increments it in memory
get_next_seq_prefix(w) ==
    [w EXCEPT !.cfg.next_seq_number = @ + 1,
              !.seqs = Append(@, w.cfg.next_seq_number)]

\* fs::write(&filepath, ..): creates or overwrites the file, stamping it now
WriteFile(w, k, t) ==
    [w EXCEPT !.pool = [x \in (DOMAIN w.pool) \cup {k} |-> IF x = k THEN t ELSE w.pool[x]],
              !.wrote = @ \cup {k}]

Files(w) == DOMAIN w.pool

\* str::contains: t occurs in s
Contains(s, t) ==
    \E i \in 0..(Len(s) - Len(t)) : SubSeq(s, i + 1, i + Len(t)) = t

\* a variant that pushes without the contains test: what C12_NoDuplicate
\* must tell from PushNew
PushAlways(s, id) == Append(s, id)

\* if !ids.contains(&id) { ids.push(id) }
PushNew(s, id) == IF InSeq(s, id) THEN s ELSE Append(s, id)

\* s.rsplit('_').next(): what follows the last '_' of the name (the whole
\* name when it has none)
LastSegment(name) ==
    LET at == {i \in 1..Len(name) : name[i] = 95}
        last == IF at = {} THEN 0 ELSE CHOOSE i \in at : \A j \in at : j <= i
    IN  SubSeq(name, last + 1, Len(name))

\* the ids of the "spotlight_" files of the folder: the last segment of
\* each name, its extension stripped
SpotlightIds(S) == {LastSegment(FileName(k)) : k \in {x \in S : x.tag = "spotlight"}}

\* a variant that matches in one direction only, file_id.contains(id): what
\* C26_Reconciled must tell from sync_spotlight_config_with_folder
sync_one_way(w) ==
    LET spotlight_ids == SpotlightIds(Files(w))
        Keep(id) == \E file_id \in spotlight_ids : Contains(file_id, id)
        kept == SelectSeq(w.cfg.downloaded_ids, Keep)
        w1 == [w EXCEPT !.cfg.downloaded_ids = kept]
    IN  IF Len(kept) < Len(w.cfg.downloaded_ids) THEN save_config(w1) ELSE w1

\* sync_spotlight_config_with_folder: keep the ledger ids that some
\* "spotlight_" file's last name segment contains or is contained in; save
\* when one was removed
sync_spotlight_config_with_folder(w) ==
    LET spotlight_ids == SpotlightIds(Files(w))
        Keep(id) == \E file_id \in spotlight_ids :
                        Contains(file_id, id) \/ Contains(id, file_id)
        kept == SelectSeq(w.cfg.downloaded_ids, Keep)
        w1 == [w EXCEPT !.cfg.downloaded_ids = kept]
    IN  IF Len(kept) < Len(w.cfg.downloaded_ids) THEN save_config(w1) ELSE w1

---------------------------------------------------------------------------
(* What the network answers to one silent fetch *)

\* the API call: "ok" (a candidate), "err" (send() or the payload parse
\* fails: the ? operator returns), "status" (not 2xx), "empty" (no result);
\* the image download: "ok", "err" (send(), bytes() or fs::write fails),
\* "status" (not 2xx)
NoAnswer == [api |-> "none", id |-> IdA, dl |-> "none"]
Answers ==
    [api : {"ok"}, id : {IdA}, dl : {"ok", "err", "status"}]
      \cup [api : {"err", "status", "empty"}, id : {IdA}, dl : {"none"}]

\* o.p: the active source's answer, o.s: Spotlight's answer
FetchOutcomes(cfg) ==
    IF \/ cfg.source \notin Limited
       \/ cfg.source = "unsplash" /\ ~cfg.unsplash_key
       \/ cfg.source = "pexels" /\ ~cfg.pexels_key
    THEN {[p |-> NoAnswer, s |-> s] : s \in Answers}
    ELSE {[p |-> p, s |-> NoAnswer] : p \in {a \in Answers : a.api \in {"ok", "err"}}}
           \cup {[p |-> p, s |-> s] : p \in {a \in Answers : a.api \in {"status", "empty"}},
                                    s \in Answers}
NoFetch == [p |-> NoAnswer, s |-> NoAnswer]

\* a silent fetch ends Ok(true), Ok(false) or Err
Done(w, res) == [w |-> w, res |-> res]

\* the state once the request to the Spotlight API left
Asked(w) == [w EXCEPT !.spotlight = TRUE]

fetch_spotlight_silent(w, t, s) ==
    IF s.api = "err" THEN Done(Asked(w), "err")
    ELSE IF s.api # "ok" THEN Done(Asked(w), "false")
    ELSE LET w1 == get_next_seq_prefix(Asked(w))
             k == FileKey(TRUE, w.cfg.next_seq_number, "spotlight", TitleMid, Trunc8(s.id))
         IN  IF s.dl = "err" THEN Done(w1, "err")
             ELSE IF s.dl = "status" THEN Done(w1, "false")
             ELSE Done([WriteFile(w1, k, t) EXCEPT
                          !.cfg.downloaded_ids = PushNew(@, s.id)], "true")

fetch_unsplash_silent(w, t, o) ==
    IF ~w.cfg.unsplash_key THEN fetch_spotlight_silent(w, t, o.s)
    ELSE LET wr == [w EXCEPT !.sent = @ \cup {"unsplash"}]
         IN  IF o.p.api = "err" THEN Done(wr, "err")
             ELSE IF o.p.api # "ok" THEN fetch_spotlight_silent(wr, t, o.s)
             ELSE LET w1 == get_next_seq_prefix(wr)
                      k == FileKey(TRUE, wr.cfg.next_seq_number, "unsplash", ThemeMid,
                                   Trunc8(o.p.id))
                  IN  IF k \in Files(w1) THEN Done(w1, "false")
                      ELSE IF o.p.dl = "err" THEN Done(w1, "err")
                      ELSE IF o.p.dl = "status" THEN Done(w1, "false")
                      ELSE Done(save_config([WriteFile(w1, k, t) EXCEPT
                                   !.cfg.requests_used = @ + 1]), "true")

fetch_wallhaven_silent(w, t, o) ==
    LET wr == [w EXCEPT !.sent = @ \cup {"wallhaven"}]
    IN  IF o.p.api = "err" THEN Done(wr, "err")
        ELSE IF o.p.api # "ok" THEN fetch_spotlight_silent(wr, t, o.s)
        ELSE LET w1 == get_next_seq_prefix(wr)
                 k == FileKey(TRUE, wr.cfg.next_seq_number, "wallhaven", ThemeMid, o.p.id)
             IN  IF o.p.dl = "err" THEN Done(w1, "err")
                 ELSE IF o.p.dl = "status" THEN Done(w1, "false")
                 ELSE Done(save_config([WriteFile(w1, k, t) EXCEPT
                              !.cfg.requests_this_minute = @ + 1]), "true")

fetch_pexels_silent(w, t, o) ==
    IF ~w.cfg.pexels_key THEN fetch_spotlight_silent(w, t, o.s)
    ELSE LET wr == [w EXCEPT !.sent = @ \cup {"pexels"}]
         IN  IF o.p.api = "err" THEN Done(wr, "err")
             ELSE IF o.p.api # "ok" THEN fetch_spotlight_silent(wr, t, o.s)
             ELSE LET w1 == get_next_seq_prefix(wr)
                      k == FileKey(TRUE, wr.cfg.next_seq_number, "pexels", ThemeMid, o.p.id)
                  IN  IF k \in Files(w1) THEN Done(w1, "false")
                      ELSE IF o.p.dl = "err" THEN Done(w1, "err")
                      ELSE IF o.p.dl = "status" THEN Done(w1, "false")
                      ELSE Done(save_config([WriteFile(w1, k, t) EXCEPT
                                   !.cfg.requests_this_hour = @ + 1]), "true")

fetch_silent(w, t, o) ==
    CASE w.cfg.source = "unsplash"  -> fetch_unsplash_silent(w, t, o)
      [] w.cfg.source = "wallhaven" -> fetch_wallhaven_silent(w, t, o)
      [] w.cfg.source = "pexels"    -> fetch_pexels_silent(w, t, o)
      [] OTHER                      -> fetch_spotlight_silent(w, t, o.s)

---------------------------------------------------------------------------
(* auto_change: one rotation tick *)

\* a variant that steps the cursor back instead of forward: what C1_Cursor
\* must tell from SetAndAdvance
SetAndRetreat(w, target, current_index, t, setok) ==
    save_config([w EXCEPT !.bg = IF setok THEN {target} ELSE @,
                          !.cfg.auto_change_index = Max(current_index - 1, 0),
                          !.cfg.last_auto_change = {t}])

\* a variant that leaves the cursor where it is when the wallpaper could not
\* be set: what C24_SetFails must tell from SetAndAdvance
SetOrStay(w, target, current_index, t, setok) ==
    save_config([w EXCEPT !.bg = IF setok THEN {target} ELSE @,
                          !.cfg.auto_change_index =
                              IF setok THEN current_index + 1 ELSE current_index,
                          !.cfg.last_auto_change = {t}])

\* set_wallpaper_windows, which may fail; then the cursor advance and the save
SetAndAdvance(w, target, current_index, t, setok) ==
    save_config([w EXCEPT !.bg = IF setok THEN {target} ELSE @,
                          !.cfg.auto_change_index = current_index + 1,
                          !.cfg.last_auto_change = {t}])

\* a variant that takes wallpapers.last(), the last file in filename order:
\* what C14_HighestPrefix must tell from Newest
NewestLast(S) == IF S = {} THEN {} ELSE {SortedFiles(S)[Cardinality(S)]}

\* newest: among the files with a NNNN_ prefix, max_by the parsed prefix
\* (max_by keeps the last of equal maxima of the sorted list)
Newest(S) ==
    LET cands == {k \in S : HasSeqPrefix(FileName(k))}
        top == {k \in cands : \A y \in cands : ParseSeq(FileName(y)) <= ParseSeq(FileName(k))}
        sorted == SortedFiles(top)
    IN  IF cands = {} THEN {} ELSE {sorted[Len(sorted)]}

\* a variant that saves the Config after the fetch, whatever came of it:
\* what C16_EmptyPool must tell from FirstFetch
FirstFetchSaved(wS, t, o1) ==
    IF Files(wS) = {}
    THEN [fetch_silent(wS, t, o1) EXCEPT !.w = save_config(@)]
    ELSE Done(wS, "none")

\* the fetch into an empty folder
FirstFetch(wS, t, o1) ==
    IF Files(wS) = {} THEN fetch_silent(wS, t, o1) ELSE Done(wS, "none")

\* a variant that takes every wallpaper other than the one the cursor would
\* set for a manual change, a file outside the folder standing before the
\* first: what C32_Undetected must tell from SmartSync
SmartSyncAny(r1, wallpapers, cur) ==
    LET total_count == Len(wallpapers)
        go == r1.res # "err" /\ total_count > 0
        index0 == r1.w.cfg.auto_change_index
        manual == /\ go
                  /\ cur # {}
                  /\ cur # {wallpapers[(index0 % total_count) + 1]}
        pos == IF manual /\ \E k \in cur : InSeq(wallpapers, k)
               THEN Position(wallpapers, CHOOSE k \in cur : TRUE) - 1 ELSE 0
        current_index == IF manual THEN pos + 1 ELSE index0
        w == IF manual
             THEN save_config([r1.w EXCEPT !.cfg.auto_change_index = current_index])
             ELSE r1.w
    IN  [ w |-> w,
          res1 |-> r1.res, go |-> go, wallpapers |-> wallpapers,
          total_count |-> total_count, manual |-> manual, pos |-> pos,
          current_index |-> current_index,
          seen |-> go /\ \E k \in cur : InSeq(wallpapers, k),
          kept |-> w.cfg = r1.w.cfg /\ w.disk = r1.w.disk ]

\* a variant that takes the position of the wallpaper for the cursor: what
\* C34_InOrder must tell from SmartSync
SmartSyncBehind(r1, wallpapers, cur) ==
    LET total_count == Len(wallpapers)
        go == r1.res # "err" /\ total_count > 0
        index0 == r1.w.cfg.auto_change_index
        manual == /\ go
                  /\ cur # {}
                  /\ cur # {wallpapers[(index0 % total_count) + 1]}
                  /\ \E k \in cur : InSeq(wallpapers, k)
        pos == IF manual THEN Position(wallpapers, CHOOSE k \in cur : TRUE) - 1 ELSE 0
        current_index == IF manual THEN pos ELSE index0
        w == IF manual
             THEN save_config([r1.w EXCEPT !.cfg.auto_change_index = current_index])
             ELSE r1.w
    IN  [ w |-> w,
          res1 |-> r1.res, go |-> go, wallpapers |-> wallpapers,
          total_count |-> total_count, manual |-> manual, pos |-> pos,
          current_index |-> current_index,
          seen |-> go /\ \E k \in cur : InSeq(wallpapers, k),
          kept |-> w.cfg = r1.w.cfg /\ w.disk = r1.w.disk ]

\* the smart index sync over the sorted listing: when the wallpaper is a
\* pool file other than the one the cursor would set, the cursor becomes its
\* position + 1 and is saved
SmartSync(r1, wallpapers, cur) ==
    LET total_count == Len(wallpapers)
        go == r1.res # "err" /\ total_count > 0
        index0 == r1.w.cfg.auto_change_index
        manual == /\ go
                  /\ cur # {}
                  /\ cur # {wallpapers[(index0 % total_count) + 1]}
                  /\ \E k \in cur : InSeq(wallpapers, k)
        pos == IF manual THEN Position(wallpapers, CHOOSE k \in cur : TRUE) - 1 ELSE 0
        current_index == IF manual THEN pos + 1 ELSE index0
        w == IF manual
             THEN save_config([r1.w EXCEPT !.cfg.auto_change_index = current_index])
             ELSE r1.w
    IN  [ w |-> w,
          res1 |-> r1.res, go |-> go, wallpapers |-> wallpapers,
          total_count |-> total_count, manual |-> manual, pos |-> pos,
          current_index |-> current_index,
          \* history: the reader reported a file of the listing; the sync left
          \* the Config and the store as it found them
          seen |-> go /\ \E k \in cur : InSeq(wallpapers, k),
          kept |-> w.cfg = r1.w.cfg /\ w.disk = r1.w.disk ]

\* the listing, sorted
Listed(r1, cur) == SmartSync(r1, SortedFiles(Files(r1.w)), cur)

\* The tick up to the exhaustion check: the ledger sync, the fetch into an
\* empty folder, the listing, the smart index sync.
Front(w0, t, cur, o1) ==
    Listed(FirstFetch(sync_spotlight_config_with_folder(w0), t, o1), cur)

\* a variant that fetches one tick later: what C13_Resync must tell from
\* Exhausted
ExhaustedLate(f) == f.go /\ f.current_index > f.total_count

\* current_index >= total_count
Exhausted(f) == f.go /\ f.current_index >= f.total_count

TickEnd(w, ret, branch, f, target, fetches) ==
    [ w |-> w, ret |-> ret, branch |-> branch, resync |-> f.manual, pos |-> f.pos,
      target |-> target, fetches |-> fetches,
      seen |-> f.seen, used |-> f.current_index, kept |-> f.kept ]

\* after the fetch of an exhausted pool: the newest file if one has a prefix,
\* else the file at the cursor in the new listing
SetNewest(f, r2, newest, relisted, t, setok, n) ==
    IF r2.res = "err" THEN TickEnd(r2.w, "err", "error", f, {}, n)
    ELSE IF newest # {}
    THEN TickEnd(SetAndAdvance(r2.w, CHOOSE k \in newest : TRUE, f.current_index, t, setok),
                 "ok", "exhausted", f, newest, n)
    ELSE TickEnd(SetAndAdvance(r2.w, relisted[(f.current_index % f.total_count) + 1],
                               f.current_index, t, setok),
                 "ok", "normal", f, {relisted[(f.current_index % f.total_count) + 1]}, n)

Refetched(f, r2, t, setok, n) ==
    SetNewest(f, r2, Newest(Files(r2.w)), SortedFiles(Files(r2.w)), t, setok, n)

\* the tick from the exhaustion check on
Back(f, t, setok, o2, n1) ==
    IF f.res1 = "err" THEN TickEnd(f.w, "err", "error", f, {}, n1)
    ELSE IF ~f.go THEN TickEnd(f.w, "ok", "nopool", f, {}, n1)
    ELSE IF Exhausted(f) THEN Refetched(f, fetch_silent(f.w, t, o2), t, setok, n1 + 1)
    ELSE TickEnd(SetAndAdvance(f.w, f.wallpapers[(f.current_index % f.total_count) + 1],
                               f.current_index, t, setok),
                 "ok", "normal", f, {f.wallpapers[(f.current_index % f.total_count) + 1]}, n1)

Counted(f, t, setok, o2) == Back(f, t, setok, o2, IF f.res1 = "none" THEN 0 ELSE 1)

auto_change(w0, t, cur, setok, o1, o2) == Counted(Front(w0, t, cur, o1), t, setok, o2)

---------------------------------------------------------------------------
(* History *)

SeqSet(s) == {s[i] : i \in 1..Len(s)}

NoDup(s) == \A i, j \in 1..Len(s) : i # j => s[i] # s[j]

Op(kind, w, e) ==
    [ kind |-> kind, seqs |-> w.seqs, sent |-> w.sent, allowed |-> w.allowed,
      rejected |-> w.rejected, reset |-> w.reset, resync |-> e.resync,
      index0 |-> e.index0, branch |-> e.branch, target |-> e.target, ret |-> e.ret,
      spotlight |-> w.spotlight, saved |-> e.saved,
      candidates |-> w.candidates, report |-> w.report,
      seen |-> e.seen, used |-> e.used, kept |-> e.kept, fetches |-> e.fetches ]

Plain ==
    [ resync |-> FALSE, index0 |-> 0, branch |-> "none", target |-> {}, ret |-> "ok",
      saved |-> TRUE, seen |-> FALSE, used |-> 0, kept |-> TRUE, fetches |-> 0 ]

\* the invocation that began with the Config c0 ends with nothing unsaved:
\* the store holds its Config, or it changed nothing of the Config it loaded
Saved(c0, w) == w.cfg = w.disk \/ w.cfg = c0

\* nothing of the above happened in the step
Idle == Op("idle", World(DefaultConfig), Plain)

\* WallpaperCli::new succeeds: config.json is missing, or fs::read_to_string
\* can read it (text that does not parse loads as Config::default())
Loads == file # "garbled"

\* one more command or tick
Busy == steps < MaxSteps /\ steps' = steps + 1

\* the part of a handler's outcome every process leaves behind
Leave(w) ==
    /\ disk' = w.disk
    /\ file' = w.file
    /\ pool' = w.pool
    /\ bg' = w.bg
    /\ handed' = handed \cup SeqSet(w.seqs)
    /\ reused' = (reused \/ ~NoDup(w.seqs) \/ SeqSet(w.seqs) \cap handed # {})

\* the model's bounds on what a handler did: no ordinal above MaxSeq is
\* handed out, and no request is counted further than MaxOver above a quota
Within(c0, w) ==
    /\ w.cfg.next_seq_number <= MaxSeq + 1
    /\ w.cfg.requests_used <= UnsplashQuota + MaxOver
    /\ w.cfg.requests_this_minute <= WallhavenQuota + MaxOver
    /\ w.cfg.requests_this_hour <= PexelsQuota + MaxOver

---------------------------------------------------------------------------
(* The scheduled process: `visuals auto-change` *)

\* history: what the tick that loaded c0 and ended as r did
TickOp(c0, r) ==
    Op("tick", r.w, [resync |-> r.resync,
                     index0 |-> c0.auto_change_index,
                     branch |-> r.branch,
                     target |-> r.target,
                     ret |-> r.ret,
                     saved |-> Saved(c0, r.w),
                     seen |-> r.seen,
                     used |-> r.used,
                     kept |-> r.kept,
                     fetches |-> r.fetches])

\* auto_change in a process that loaded the Config c0, the reader of the
\* current wallpaper answering one of curs and the setting of the wallpaper
\* succeeding as one of oks
RunWith(c0, curs, oks) ==
    \E cur \in curs, setok \in oks :
      \E wS \in {sync_spotlight_config_with_folder(World(c0))} :
        \E o1 \in (IF Files(wS) = {} THEN FetchOutcomes(wS.cfg) ELSE {NoFetch}) :
          \E f \in {Front(World(c0), now, cur, o1)} :
            \E o2 \in (IF Exhausted(f) THEN FetchOutcomes(f.w.cfg) ELSE {NoFetch}) :
              \E r \in {auto_change(World(c0), now, cur, setok, o1, o2)} :
                /\ Within(c0, r.w)
                /\ Leave(r.w)
                /\ op' = TickOp(c0, r)

\* the reader may fail, the setting may fail
Run(c0) == RunWith(c0, {bg, {}}, BOOLEAN)

\* one process from its start to its end: load, auto_change, exit
Tick ==
    /\ Loads
    /\ disk.auto_change_index <= MaxIndex
    /\ Busy
    /\ Run(disk)
    /\ UNCHANGED <<session, now>>
    /\ UNCHANGED aside

\* a process whose reader reports the wallpaper that is set and whose
\* setting succeeds
UndisturbedTick ==
    /\ Loads
    /\ disk.auto_change_index <= MaxIndex
    /\ Busy
    /\ RunWith(disk, {bg}, {TRUE})
    /\ UNCHANGED <<session, now>>
    /\ UNCHANGED aside

---------------------------------------------------------------------------
(* The interactive process *)

\* cleanup_old_data, run at startup: delete the images older than 30 days,
\* and when one was deleted set next_seq_number to 1 + the highest NNNN_
\* prefix left in the folder
cleanup_old_data(w, t) ==
    LET old == {k \in Files(w) : w.pool[k] < t - RetentionMinutes}
        left == Files(w) \ old
        seqs == {ParseSeq(FileName(k)) : k \in {x \in left : HasSeqPrefix(FileName(x))}}
        max_seq == IF seqs = {} THEN 0 ELSE CHOOSE m \in seqs : \A n \in seqs : n <= m
    IN  IF old = {} THEN w
        ELSE save_config([w EXCEPT !.pool = [k \in left |-> w.pool[k]],
                                   !.cfg.next_seq_number = max_seq + 1])

\* WallpaperCli::new (the store is loaded once), then cleanup_old_data
SessionStart ==
    /\ ~session.open
    /\ Loads
    /\ LET w == cleanup_old_data(World(disk), now)
       IN  /\ Leave(w)
           /\ session' = [open |-> TRUE, cfg |-> w.cfg]
           /\ op' = Op("start", w, [Plain EXCEPT !.saved = Saved(disk, w)])
    /\ UNCHANGED <<now, steps>>
    /\ UNCHANGED aside

\* exit / quit
SessionEnd ==
    /\ session.open
    /\ session' = [open |-> FALSE, cfg |-> DefaultConfig]
    /\ op' = Idle
    /\ UNCHANGED <<disk, file, pool, bg, now, handed, reused, steps>>
    /\ UNCHANGED aside

\* a command of the session ends: its Config stays in the process
Stay(kind, w) ==
    /\ Busy
    /\ Leave(w)
    /\ session' = [open |-> TRUE, cfg |-> w.cfg]
    /\ op' = Op(kind, w, [Plain EXCEPT !.saved = Saved(session.cfg, w)])
    /\ UNCHANGED now
    /\ UNCHANGED aside

\* what one candidate's download does: "ok", "fail" (send error, error
\* status or read error: the loop continues), "ioerr" (fs::write fails)
MaxBatch == 1
Items == [id : Ids, out : {"ok", "fail", "ioerr"}]
Batches == UNION {[1..n -> Items] : n \in 0..MaxBatch}

\* the command's line for an item: "downloaded", "skipped" (a duplicate) or
\* "failed"
Report(w, what) == [w EXCEPT !.report = Append(@, what)]

\* the command was given n items, of which it passes over the first dup as
\* already downloaded
Found(w, n, dup) ==
    [w EXCEPT !.candidates = n, !.report = [i \in 1..dup |-> "skipped"]]

\* the download loop of fetch_spotlight over images[i..]; ends "done" or "err"
RECURSIVE SpotlightLoop(_, _, _, _)
SpotlightLoop(w, images, i, t) ==
    IF i > Len(images) THEN Done(w, "done")
    ELSE LET w1 == get_next_seq_prefix(w)
             k == FileKey(TRUE, w.cfg.next_seq_number, "spotlight", TitleMid,
                          Trunc8(images[i].id))
         IN  IF images[i].out = "fail"
             THEN SpotlightLoop(Report(w1, "failed"), images, i + 1, t)
             ELSE IF images[i].out = "ioerr" THEN Done(Report(w1, "failed"), "err")
             ELSE SpotlightLoop(Report([WriteFile(w1, k, t) EXCEPT
                                          !.cfg.downloaded_ids = PushNew(@, images[i].id)],
                                       "downloaded"),
                                images, i + 1, t)

\* fetch_spotlight: api is "ok" or "fail" (no connection, error status or an
\* unparsable response: the command returns)
fetch_spotlight(w0, t, api, batch) ==
    LET ws == sync_spotlight_config_with_folder(w0)
        NotYet(it) == ~InSeq(ws.cfg.downloaded_ids, it.id)
        images == SelectSeq(batch, NotYet)
        w == Found(ws, Len(batch), Len(batch) - Len(images))
        r == SpotlightLoop(w, images, 1, t)
    IN  IF api = "fail" \/ images = <<>> THEN w
        ELSE IF r.res = "err" THEN r.w
        ELSE save_config(r.w)

\* the fetch command with Spotlight as the source, the API answering with
\* one of the batches B
FetchSpotlightOf(B) ==
    /\ session.open
    /\ session.cfg.source = "spotlight"
    /\ \E api \in {"ok", "fail"} :
         \E batch \in (IF api = "ok" THEN B ELSE {<<>>}) :
           LET w == fetch_spotlight(World(session.cfg), now, api, batch)
           IN  /\ Within(session.cfg, w)
               /\ Stay("fetch", w)

FetchSpotlight == FetchSpotlightOf(Batches)

\* a fetch cycle of several images
MaxCycle == 2
Cycles == UNION {[1..n -> Items] : n \in 0..MaxCycle}
FetchCycle == FetchSpotlightOf(Cycles)

\* the loop of picker_mode over the pasted URLs: the ordinal is taken once
\* the image bytes arrived; "ioerr" is a failed fs::write (the loop goes on)
RECURSIVE PickerLoop(_, _, _, _, _)
PickerLoop(w, source, urls, i, t) ==
    IF i > Len(urls) THEN w
    ELSE IF urls[i].out = "fail" THEN PickerLoop(w, source, urls, i + 1, t)
    ELSE LET w1 == get_next_seq_prefix(w)
             k == FileKey(TRUE, w.cfg.next_seq_number, source, NoMid, Trunc8(urls[i].id))
         IN  IF urls[i].out = "ioerr" THEN PickerLoop(w1, source, urls, i + 1, t)
             ELSE PickerLoop(
                    [WriteFile(w1, k, t) EXCEPT
                       !.cfg.archive_ids = IF source = "spotlight"
                                           THEN PushNew(@, urls[i].id) ELSE @],
                    source, urls, i + 1, t)

picker_mode(w, source, urls, t) == save_config(PickerLoop(w, source, urls, 1, t))

\* the sites the user picks from
PickerSources == {"spotlight", "pexels"}

PickerMode ==
    /\ session.open
    /\ \E source \in PickerSources, urls \in Batches :
         LET w == picker_mode(World(session.cfg), source, urls, now)
         IN  /\ Within(session.cfg, w)
             /\ Stay("pick", w)

\* a variant that keeps the sequence counter over the reset: what
\* C22_FullReset must tell from reset_config
reset_config_keeping(w, yes) ==
    IF yes
    THEN save_config([w EXCEPT !.cfg = [DefaultConfig EXCEPT
                                          !.next_seq_number = w.cfg.next_seq_number]])
    ELSE w

\* reset_config, answered yes or no
reset_config(w, yes) ==
    IF yes THEN save_config([w EXCEPT !.cfg = DefaultConfig]) ELSE w

ResetConfig ==
    /\ session.open
    /\ \E yes \in BOOLEAN :
         Stay(IF yes THEN "reset" ELSE "noreset", reset_config(World(session.cfg), yes))

\* set_source: the choice is saved; Unsplash and Pexels then ask for the key
\* when none is set (key: one was typed)
set_source(w, source, key) ==
    LET w1 == save_config([w EXCEPT !.cfg.source = source])
    IN  IF source = "unsplash" /\ ~w1.cfg.unsplash_key /\ key
        THEN save_config([w1 EXCEPT !.cfg.unsplash_key = TRUE])
        ELSE IF source = "pexels" /\ ~w1.cfg.pexels_key /\ key
        THEN save_config([w1 EXCEPT !.cfg.pexels_key = TRUE])
        ELSE w1

SetSource ==
    /\ session.open
    /\ \E source \in Sources, key \in BOOLEAN :
         Stay("source", set_source(World(session.cfg), source, key))

\* fs::write(&self.config_file, json) cut short: File::create has truncated
\* config.json and write_all has not finished
TornWrite(w) == [w EXCEPT !.disk = DefaultConfig, !.file = "torn"]

\* set_source whose process is killed (the terminal is closed, the power is
\* lost) around its first save_config: before fs::write creates the file,
\* while it writes, or after it returned
KilledInSave(w, source, cut) ==
    CASE cut = "before" -> w
      [] cut = "during" -> TornWrite([w EXCEPT !.cfg.source = source])
      [] cut = "after"  -> save_config([w EXCEPT !.cfg.source = source])

SetSourceKilled ==
    /\ session.open
    /\ Busy
    /\ \E source \in Sources, cut \in {"before", "during", "after"} :
         LET w == KilledInSave(World(session.cfg), source, cut)
         IN  /\ Leave(w)
             /\ op' = Op("killed", w, Plain)
    /\ session' = [open |-> FALSE, cfg |-> DefaultConfig]
    /\ UNCHANGED now
    /\ UNCHANGED aside

\* main when WallpaperCli::new returns Err: the message, "Press Enter to
\* exit...", std::process::exit(1); nothing is loaded and no command runs
StartFails ==
    /\ ~session.open
    /\ ~Loads
    /\ Busy
    /\ op' = Op("abort", World(DefaultConfig), [Plain EXCEPT !.ret = "exit1"])
    /\ UNCHANGED <<disk, file, session, pool, bg, now, handed, reused>>
    /\ UNCHANGED aside

---------------------------------------------------------------------------
(* The rate limiters of the interactive fetch commands *)

Checked(w, ok) == [w |-> w, ok |-> ok]

\* the fields of a source's limiter and its numbers
Count(cfg, src) ==
    CASE src = "unsplash" -> cfg.requests_used
      [] src = "wallhaven" -> cfg.requests_this_minute
      [] src = "pexels" -> cfg.requests_this_hour

WindowStart(cfg, src) ==
    CASE src = "unsplash" -> cfg.rate_limit_reset_time
      [] src = "wallhaven" -> cfg.minute_window_start
      [] src = "pexels" -> cfg.hour_window_start

Quota(src) ==
    CASE src = "unsplash" -> UnsplashQuota
      [] src = "wallhaven" -> WallhavenQuota
      [] src = "pexels" -> PexelsQuota

Limit(src) ==
    CASE src = "unsplash" -> UnsplashLimit
      [] src = "wallhaven" -> WallhavenLimit
      [] src = "pexels" -> PexelsLimit

Window(src) ==
    CASE src = "unsplash" -> UnsplashWindow
      [] src = "wallhaven" -> WallhavenWindow
      [] src = "pexels" -> PexelsWindow

\* history: the check of src began a new window; full: the count it found
\* was one it refuses within a window
Reset(w, src) == [src |-> src, full |-> Count(w.cfg, src) >= Limit(src)]

\* a variant whose window ends only after more than an hour: what
\* C7_WindowReset must tell from check_unsplash_rate_limit
check_unsplash_late(w, t) ==
    IF w.cfg.rate_limit_reset_time # {}
    THEN LET reset_time == CHOOSE x \in w.cfg.rate_limit_reset_time : TRUE
             elapsed == t - reset_time
         IN  IF elapsed > UnsplashWindow
             THEN Checked(save_config([w EXCEPT !.cfg.requests_used = 0,
                                                !.cfg.rate_limit_reset_time = {t},
                                                !.reset = @ \cup {Reset(w, "unsplash")}]), TRUE)
             ELSE IF w.cfg.requests_used >= UnsplashLimit
             THEN Checked(w, FALSE)
             ELSE Checked(w, TRUE)
    ELSE Checked(save_config([w EXCEPT !.cfg.rate_limit_reset_time = {t},
                                       !.cfg.requests_used = 0]), TRUE)

\* check_unsplash_rate_limit: 50 requests an hour, refused from 45 on
check_unsplash_rate_limit(w, t) ==
    IF w.cfg.rate_limit_reset_time # {}
    THEN LET reset_time == CHOOSE x \in w.cfg.rate_limit_reset_time : TRUE
             elapsed == t - reset_time
         IN  IF elapsed >= UnsplashWindow
             THEN Checked(save_config([w EXCEPT !.cfg.requests_used = 0,
                                                !.cfg.rate_limit_reset_time = {t},
                                                !.reset = @ \cup {Reset(w, "unsplash")}]), TRUE)
             ELSE IF w.cfg.requests_used >= UnsplashLimit
             THEN Checked(w, FALSE)
             ELSE Checked(w, TRUE)
    ELSE Checked(save_config([w EXCEPT !.cfg.rate_limit_reset_time = {t},
                                       !.cfg.requests_used = 0]), TRUE)

\* a variant that counts the request it allows: what C30_PureGate must tell
\* from check_wallhaven_rate_limit
check_wallhaven_counting(w, t) ==
    IF w.cfg.minute_window_start # {}
    THEN LET window_start == CHOOSE x \in w.cfg.minute_window_start : TRUE
             elapsed == t - window_start
         IN  IF elapsed >= WallhavenWindow
             THEN Checked(save_config([w EXCEPT !.cfg.requests_this_minute = 0,
                                                !.cfg.minute_window_start = {t},
                                                !.reset = @ \cup {Reset(w, "wallhaven")}]), TRUE)
             ELSE IF w.cfg.requests_this_minute >= WallhavenLimit
             THEN Checked(w, FALSE)
             ELSE Checked([w EXCEPT !.cfg.requests_this_minute = @ + 1], TRUE)
    ELSE Checked(save_config([w EXCEPT !.cfg.minute_window_start = {t},
                                       !.cfg.requests_this_minute = 0]), TRUE)

\* check_wallhaven_rate_limit: 45 requests a minute, refused from 40 on
check_wallhaven_rate_limit(w, t) ==
    IF w.cfg.minute_window_start # {}
    THEN LET window_start == CHOOSE x \in w.cfg.minute_window_start : TRUE
             elapsed == t - window_start
         IN  IF elapsed >= WallhavenWindow
             THEN Checked(save_config([w EXCEPT !.cfg.requests_this_minute = 0,
                                                !.cfg.minute_window_start = {t},
                                                !.reset = @ \cup {Reset(w, "wallhaven")}]), TRUE)
             ELSE IF w.cfg.requests_this_minute >= WallhavenLimit
             THEN Checked(w, FALSE)
             ELSE Checked(w, TRUE)
    ELSE Checked(save_config([w EXCEPT !.cfg.minute_window_start = {t},
                                       !.cfg.requests_this_minute = 0]), TRUE)

\* a variant whose first use starts the window in memory only: what
\* C31_FirstUse must tell from check_pexels_rate_limit
check_pexels_unsaved(w, t) ==
    IF w.cfg.requests_this_hour > PexelsQuota
    THEN Checked(save_config([w EXCEPT !.cfg.requests_this_hour = 0,
                                       !.cfg.hour_window_start = {t},
                                                !.reset = @ \cup {Reset(w, "pexels")}]), TRUE)
    ELSE IF w.cfg.hour_window_start # {}
    THEN LET window_start == CHOOSE x \in w.cfg.hour_window_start : TRUE
             elapsed == t - window_start
         IN  IF elapsed >= PexelsWindow
             THEN Checked(save_config([w EXCEPT !.cfg.requests_this_hour = 0,
                                                !.cfg.hour_window_start = {t},
                                                !.reset = @ \cup {Reset(w, "pexels")}]), TRUE)
             ELSE IF w.cfg.requests_this_hour >= PexelsLimit
             THEN Checked(w, FALSE)
             ELSE Checked(w, TRUE)
    ELSE Checked([w EXCEPT !.cfg.hour_window_start = {t},
                           !.cfg.requests_this_hour = 0], TRUE)

\* check_pexels_rate_limit: 200 requests an hour, refused from 190 on; a
\* count above 200 is reset first
check_pexels_rate_limit(w, t) ==
    IF w.cfg.requests_this_hour > PexelsQuota
    THEN Checked(save_config([w EXCEPT !.cfg.requests_this_hour = 0,
                                       !.cfg.hour_window_start = {t},
                                                !.reset = @ \cup {Reset(w, "pexels")}]), TRUE)
    ELSE IF w.cfg.hour_window_start # {}
    THEN LET window_start == CHOOSE x \in w.cfg.hour_window_start : TRUE
             elapsed == t - window_start
         IN  IF elapsed >= PexelsWindow
             THEN Checked(save_config([w EXCEPT !.cfg.requests_this_hour = 0,
                                                !.cfg.hour_window_start = {t},
                                                !.reset = @ \cup {Reset(w, "pexels")}]), TRUE)
             ELSE IF w.cfg.requests_this_hour >= PexelsLimit
             THEN Checked(w, FALSE)
             ELSE Checked(w, TRUE)
    ELSE Checked(save_config([w EXCEPT !.cfg.hour_window_start = {t},
                                       !.cfg.requests_this_hour = 0]), TRUE)

\* the X-Ratelimit-Remaining header of a response: absent, or a number the
\* server sends (at most its quota)
NoHeader == {}
UnsplashRemaining == {NoHeader, {0}, {5}, {6}, {50}}
PexelsRemaining == {NoHeader, {0}, {11}, {12}, {200}}

\* parse_rate_limit_headers, for the header values up to the quota the
\* commands of the model are answered with (remaining_used below computes it
\* for every u32)
parse_rate_limit_headers(w, t, remaining) ==
    IF remaining = NoHeader THEN w
    ELSE LET remaining_num == CHOOSE x \in remaining : TRUE
         IN  [w EXCEPT !.cfg.requests_used = UnsplashQuota - remaining_num,
                       !.cfg.rate_limit_reset_time = IF @ = {} THEN {t} ELSE @]

\* parse_pexels_rate_limit_headers (200u32.saturating_sub)
parse_pexels_rate_limit_headers(w, t, remaining) ==
    IF remaining = NoHeader THEN w
    ELSE LET remaining_num == CHOOSE x \in remaining : TRUE
         IN  [w EXCEPT !.cfg.requests_this_hour = Max(PexelsQuota - remaining_num, 0),
                       !.cfg.hour_window_start = IF @ = {} THEN {t} ELSE @]

\* the download loop of the three commands: the files carry no ordinal; a
\* file that exists is skipped; ends "done" or "err" (fs::write failed)
RECURSIVE PhotoLoop(_, _, _, _, _)
PhotoLoop(w, tag, photos, i, t) ==
    IF i > Len(photos) THEN Done(w, "done")
    ELSE LET k == FileKey(FALSE, 0, tag, ThemeMid, photos[i].id)
         IN  IF k \in Files(w)
             THEN PhotoLoop(Report(w, "skipped"), tag, photos, i + 1, t)
             ELSE IF photos[i].out = "fail"
             THEN PhotoLoop(Report(w, "failed"), tag, photos, i + 1, t)
             ELSE IF photos[i].out = "ioerr" THEN Done(Report(w, "failed"), "err")
             ELSE PhotoLoop(Report(WriteFile(w, k, t), "downloaded"), tag, photos,
                            i + 1, t)

Finish(r) == IF r.res = "err" THEN r.w ELSE save_config(r.w)

Refused(w, src) == [w EXCEPT !.rejected = @ \cup {src}]
Allowed(w, src) == [w EXCEPT !.allowed = @ \cup {src}]
Sent(w, src) == [w EXCEPT !.sent = @ \cup {src}]

\* fetch_unsplash
fetch_unsplash(w0, t, prompt, api, remaining, photos) ==
    LET c == check_unsplash_rate_limit(w0, t)
        w1 == Allowed(c.w, "unsplash")
        w2 == Sent(save_config(w1), "unsplash")
        w3 == parse_rate_limit_headers(w2, t, remaining)
    IN  IF ~w0.cfg.unsplash_key THEN w0
        ELSE IF ~c.ok THEN Refused(c.w, "unsplash")
        ELSE IF prompt = "theme" THEN w1
        ELSE IF prompt = "count" THEN save_config(w1)
        ELSE IF api \in {"err", "status", "empty"} THEN w2
        ELSE Finish(PhotoLoop(Found(w3, Len(photos), 0), "unsplash", photos, 1, t))

\* fetch_wallhaven
fetch_wallhaven(w0, t, prompt, api, photos) ==
    LET c == check_wallhaven_rate_limit(w0, t)
        w1 == Allowed(c.w, "wallhaven")
        w2 == Sent(save_config(w1), "wallhaven")
        w3 == [w2 EXCEPT !.cfg.requests_this_minute = @ + 1,
                         !.cfg.minute_window_start = IF @ = {} THEN {t} ELSE @]
    IN  IF ~c.ok THEN Refused(c.w, "wallhaven")
        ELSE IF prompt = "theme" THEN w1
        ELSE IF api \in {"err", "status"} THEN w2
        ELSE IF api = "empty" THEN w3
        ELSE Finish(PhotoLoop(Found(w3, Len(photos), 0), "wallhaven", photos, 1, t))

\* fetch_pexels
fetch_pexels(w0, t, prompt, api, remaining, photos) ==
    LET c == check_pexels_rate_limit(w0, t)
        w1 == Allowed(c.w, "pexels")
        w2 == Sent(save_config(w1), "pexels")
        w3 == [parse_pexels_rate_limit_headers(w2, t, remaining) EXCEPT
                 !.cfg.requests_this_hour = @ + 1,
                 !.cfg.hour_window_start = IF @ = {} THEN {t} ELSE @]
    IN  IF ~w0.cfg.pexels_key THEN w0
        ELSE IF ~c.ok THEN Refused(c.w, "pexels")
        ELSE IF prompt = "theme" THEN w1
        ELSE IF api \in {"err", "status"} THEN w2
        ELSE IF api = "empty" THEN w3
        ELSE Finish(PhotoLoop(Found(w3, Len(photos), 0), "pexels", photos, 1, t))

\* the photos a search returns
Photos == [1..1 -> Items]

\* the inputs of one fetch command. prompt: what the user answers after the
\* check, "theme" and "count" being a 0 typed at that prompt and "go" letting
\* the request happen. api: what the search request does, "err" no
\* connection, "status" an error status, "empty" no photo found, "ok" the
\* photos of the batch
FetchInputs ==
    [prompt : {"theme", "count"}, api : {"err"}, photos : {<<>>}]
      \cup [prompt : {"go"}, api : {"err", "status", "empty"}, photos : {<<>>}]
      \cup [prompt : {"go"}, api : {"ok"}, photos : Photos]

FetchUnsplash ==
    /\ session.open
    /\ session.cfg.source = "unsplash"
    /\ \E in \in FetchInputs :
         \E remaining \in (IF in.api = "ok" THEN UnsplashRemaining ELSE {NoHeader}) :
           LET w == fetch_unsplash(World(session.cfg), now, in.prompt, in.api,
                                   remaining, in.photos)
           IN  /\ Within(session.cfg, w)
               /\ Stay("fetch", w)

FetchWallhaven ==
    /\ session.open
    /\ session.cfg.source = "wallhaven"
    /\ \E in \in FetchInputs :
         LET w == fetch_wallhaven(World(session.cfg), now, in.prompt, in.api, in.photos)
         IN  /\ Within(session.cfg, w)
             /\ Stay("fetch", w)

FetchPexels ==
    /\ session.open
    /\ session.cfg.source = "pexels"
    /\ \E in \in FetchInputs :
         \E remaining \in (IF in.api \in {"ok", "empty"} THEN PexelsRemaining
                           ELSE {NoHeader}) :
           LET w == fetch_pexels(World(session.cfg), now, in.prompt, in.api,
                                 remaining, in.photos)
           IN  /\ Within(session.cfg, w)
               /\ Stay("fetch", w)

---------------------------------------------------------------------------
(* The scheduled task: generate_task_xml and create_vbs_wrapper *)

\* the model lets this many auto-change processes be in flight
MaxTicks == 2

\* s without its i-th element
Remove(s, i) == SubSeq(s, 1, i - 1) \o SubSeq(s, i + 1, Len(s))

\* A trigger of the task fires: the TimeTrigger or CalendarTrigger, a start
\* the machine missed (StartWhenAvailable), a start on demand.
\* MultipleInstancesPolicy IgnoreNew: the Task Scheduler starts no instance of
\* the task while one is running.
TaskTriggered ==
    /\ ~instance
    /\ instance' = TRUE
    /\ op' = Idle
    /\ UNCHANGED <<disk, file, session, pool, bg, now, handed, reused, steps>>
    /\ UNCHANGED <<ticks, schedule, picked, cycle, task, header>>

\* The instance runs the task's action, wscript.exe on the wrapper script:
\* objShell.Run """exe"" auto-change", 0, False starts the auto-change process
\* and, its bWaitOnReturn being False, returns without waiting for it; the
\* script is over and the instance with it. The new process loads the store
\* (WallpaperCli::new), or exits at once when it cannot.
WrapperRuns ==
    /\ instance
    /\ Len(ticks) < MaxTicks
    /\ instance' = FALSE
    /\ ticks' = IF Loads THEN Append(ticks, disk) ELSE ticks
    /\ op' = Idle
    /\ UNCHANGED <<disk, file, session, pool, bg, now, handed, reused, steps>>
    /\ UNCHANGED <<schedule, picked, cycle, task, header>>

\* one of the processes in flight runs auto_change on the Config it loaded,
\* and exits
TickEnds ==
    /\ Busy
    /\ \E i \in 1..Len(ticks) :
         /\ ticks[i].auto_change_index <= MaxIndex
         /\ Run(ticks[i])
         /\ ticks' = Remove(ticks, i)
    /\ UNCHANGED <<session, now, instance, schedule, picked, cycle, task, header>>

---------------------------------------------------------------------------
(* auto_change, step by step *)

\* no process is being followed
NoCycle == [at |-> "Idle"]

\* no header was handed over
NoRemaining == [at |-> "none"]

\* no process is followed beyond this many passes of the index sync
MaxPasses == 2
\* this many processes are followed
MaxCycles == 1

\* the process's state w over the store, the folder and the wallpaper as
\* they are now
Present(w) == [w EXCEPT !.disk = disk, !.file = file, !.pool = pool, !.bg = bg]

\* what a step of the process leaves outside the process
Share(w) ==
    /\ disk' = w.disk
    /\ file' = w.file
    /\ pool' = w.pool
    /\ bg' = w.bg

\* a variant that looks at the wallpaper again after the sync: what
\* C33_Terminates must tell from AfterSync
AfterSyncAgain(f) == "Resyncing"

\* where auto_change goes from the index sync: the exhaustion check
AfterSync(f) == IF Exhausted(f) THEN "Exhausted" ELSE "Advancing"

\* the process returns from auto_change and exits
Ends(c0, r) ==
    /\ Within(c0, r.w)
    /\ Leave(r.w)
    /\ op' = TickOp(c0, r)
    /\ cycle' = NoCycle

\* the task starts the process: WallpaperCli::new loads the Config. What the
\* servers will answer this process is settled here: o1 on a fetch into an
\* empty folder, o2 on the fetch of an exhausted pool.
CycleBegins ==
    /\ cycle.at = "Idle"
    /\ Loads
    /\ disk.auto_change_index <= MaxIndex
    /\ steps < MaxCycles
    /\ steps' = steps + 1
    /\ cycle' = [at |-> "Evaluating", c0 |-> disk, passes |-> 0]
    /\ op' = Idle
    /\ UNCHANGED <<disk, file, session, pool, bg, now, handed, reused>>
    /\ UNCHANGED <<instance, ticks, schedule, picked, task, header>>

\* the ledger sync, the fetch into an empty folder, the listing, and the
\* look at the current wallpaper; the early returns
Evaluates ==
    /\ cycle.at = "Evaluating"
    /\ \E cur \in {bg, {}},
          o1 \in (IF pool = <<>> THEN FetchOutcomes(cycle.c0) ELSE {NoFetch}) :
         \E wS \in {sync_spotlight_config_with_folder(World(cycle.c0))} :
           \E r1 \in {FirstFetch(wS, now, o1)} :
             \E f \in {Listed(r1, cur)} :
               IF ~f.go
               THEN \E r \in {Counted(f, now, TRUE, NoFetch)} : Ends(cycle.c0, r)
               ELSE /\ Within(cycle.c0, r1.w)
                    /\ Share(r1.w)
                    /\ cycle' = [at |-> IF f.manual THEN "Resyncing" ELSE AfterSync(f),
                                 c0 |-> cycle.c0, passes |-> 0,
                                 w |-> r1.w, f |-> f]
                    /\ op' = Idle
                    /\ UNCHANGED <<handed, reused>>
    /\ UNCHANGED <<session, now, steps>>
    /\ UNCHANGED <<instance, ticks, schedule, picked, task, header>>

\* the manual change: the cursor becomes pos + 1 and is saved
Resyncs ==
    /\ cycle.at = "Resyncing"
    /\ \E w \in {save_config([Present(cycle.w) EXCEPT
                                 !.cfg.auto_change_index = cycle.f.current_index])} :
         /\ Share(w)
         /\ cycle' = [cycle EXCEPT !.at = AfterSync(cycle.f),
                                   !.w = w,
                                   !.passes = IF @ < MaxPasses THEN @ + 1 ELSE @]
    /\ op' = Idle
    /\ UNCHANGED <<session, now, handed, reused, steps>>
    /\ UNCHANGED <<instance, ticks, schedule, picked, task, header>>

\* the normal case: the file at the cursor is set, the cursor saved
Advances ==
    /\ cycle.at = "Advancing"
    /\ \E setok \in BOOLEAN :
         \E f \in {[cycle.f EXCEPT !.w = Present(cycle.w)]} :
           \E r \in {Counted(f, now, setok, NoFetch)} : Ends(cycle.c0, r)
    /\ UNCHANGED <<session, now, steps>>
    /\ UNCHANGED <<instance, ticks, schedule, picked, task, header>>

\* the exhaustion branch: the fetch, then the newest file or the return
Exhausts ==
    /\ cycle.at = "Exhausted"
    /\ \E setok \in BOOLEAN, o2 \in FetchOutcomes(cycle.w.cfg) :
         \E f \in {[cycle.f EXCEPT !.w = Present(cycle.w)]} :
           \E r \in {Counted(f, now, setok, o2)} : Ends(cycle.c0, r)
    /\ UNCHANGED <<session, now, steps>>
    /\ UNCHANGED <<instance, ticks, schedule, picked, task, header>>

---------------------------------------------------------------------------
(* X-Ratelimit-Remaining as a u32 *)

\* a u32 is written as its two 16-bit halves <<high, low>>
Half == 65536

U32(n) == <<n \div Half, n % Half>>

\* a - b modulo 2^32
wrapping_sub(a, b) ==
    LET low == a[2] - b[2]
        high == a[1] - b[1] - (IF low < 0 THEN 1 ELSE 0)
    IN  <<(high + Half) % Half, (low + Half) % Half>>

\* a < b
Below(a, b) == a[1] < b[1] \/ (a[1] = b[1] /\ a[2] < b[2])

\* a - b on u32 with the - operator: the difference when b <= a; else the
\* build decides: a panic with overflow checks on (the dev profile), the
\* difference modulo 2^32 with them off (the release profile)
Minus(a, b) ==
    IF Below(a, b)
    THEN {[out |-> "panic", v |-> a], [out |-> "stored", v |-> wrapping_sub(a, b)]}
    ELSE {[out |-> "stored", v |-> wrapping_sub(a, b)]}

\* the requests_used that parse_rate_limit_headers stores for the parsed
\* header value: 50 - remaining_num
remaining_used(remaining_num) == Minus(U32(UnsplashQuota), remaining_num)

\* the header values handed over: every pair of these halves
HighHalves == {0, 1, 32767, 32768, 65535}
LowHalves == {0, 1, 5, 6, 49, 50, 51, 52, 4999, 32768, 65485, 65535}

\* a response whose X-Ratelimit-Remaining parses as the u32 r
Remaining(r) == [at |-> "handed", remaining |-> r, out |-> "none", used |-> U32(0)]

\* parse_rate_limit_headers on the response handed over
ParseRateLimitHeaders ==
    /\ header.at = "handed"
    /\ \E r \in remaining_used(header.remaining) :
         header' = [header EXCEPT !.at = "parsed", !.out = r.out, !.used = r.v]
    /\ op' = Idle
    /\ UNCHANGED <<disk, file, session, pool, bg, now, handed, reused, steps>>
    /\ UNCHANGED <<instance, ticks, schedule, picked, cycle, task>>

---------------------------------------------------------------------------
(* The scheduled task: schedule, test-flicker, unschedule, silent-uninstall *)

\* TaskScheduler::delete_task: schtasks /Delete; Ok when it succeeds or says
\* the task does not exist (gone: the OS removes the task when there is one)
delete_task(t, gone) == [task |-> IF gone THEN FALSE ELSE t, ok |-> gone]

\* TaskScheduler::create_task: the old task is deleted first (the result is
\* dropped), then the wrapper is written, then schtasks /Create /F runs; out
\* is "ok", "elevation" (the wrapper cannot be written) or "fail"
create_task(t, gone, out) ==
    [task |-> IF out = "ok" THEN TRUE ELSE delete_task(t, gone).task, res |-> out]

\* what a command leaves of the task and the Config
Tasked(w, t, branch) == [w |-> w, task |-> t, branch |-> branch]

\* the Config update after create_task returned Ok
Enabled(w) == save_config([w EXCEPT !.cfg.auto_change_enabled = TRUE])

\* the Config update after delete_task
Disabled(w) == save_config([w EXCEPT !.cfg.auto_change_enabled = FALSE])

\* WallpaperCli::schedule: the frequency prompt (cancel: cancelled or an invalid choice),
\* then create_task; the flag is set and saved on Ok only
schedule_command(w, t, cancel, gone, out) ==
    IF cancel THEN Tasked(w, t, "cancelled")
    ELSE IF out = "ok" THEN Tasked(Enabled(w), create_task(t, gone, out).task, "created")
    ELSE Tasked(w, create_task(t, gone, out).task, out)

\* test_flicker: nothing without a jpg in the folder, else as schedule with
\* the one minute frequency
test_flicker(w, t, gone, out) ==
    IF Files(w) = {} THEN Tasked(w, t, "nopool")
    ELSE IF out = "ok" THEN Tasked(Enabled(w), create_task(t, gone, out).task, "created")
    ELSE Tasked(w, create_task(t, gone, out).task, out)

\* unschedule: returns at once when the flag is off; else delete_task, and
\* the flag is cleared and saved on Ok only
unschedule(w, t, gone) ==
    IF ~w.cfg.auto_change_enabled THEN Tasked(w, t, "skipped")
    ELSE IF delete_task(t, gone).ok THEN Tasked(Disabled(w), delete_task(t, gone).task, "removed")
    ELSE Tasked(w, t, "failed")

\* a command of the session that may touch the task ends; after the
\* elevation relaunch the process exits
TaskStay(kind, r) ==
    /\ Busy
    /\ Leave(r.w)
    /\ session' = IF r.branch = "elevation" /\ kind = "schedule"
                  THEN [open |-> FALSE, cfg |-> DefaultConfig]
                  ELSE [open |-> TRUE, cfg |-> r.w.cfg]
    /\ task' = r.task
    /\ op' = Op(kind, r.w, [Plain EXCEPT !.branch = r.branch,
                                         !.saved = Saved(session.cfg, r.w)])
    /\ UNCHANGED now
    /\ UNCHANGED <<instance, ticks, schedule, picked, cycle, header>>

Outs == {"ok", "elevation", "fail"}

Schedule ==
    /\ session.open
    /\ \E cancel \in BOOLEAN, gone \in BOOLEAN, out \in Outs :
         TaskStay("schedule", schedule_command(World(session.cfg), task, cancel, gone, out))

TestFlicker ==
    /\ session.open
    /\ \E gone \in BOOLEAN, out \in Outs :
         TaskStay("test-flicker", test_flicker(World(session.cfg), task, gone, out))

Unschedule ==
    /\ session.open
    /\ \E gone \in BOOLEAN :
         TaskStay("unschedule", unschedule(World(session.cfg), task, gone))

\* `visuals silent-uninstall`, run by the uninstaller: a process of its own
\* that loads the store, deletes the task (the result is dropped), clears
\* the flag and saves
SilentUninstall ==
    /\ Loads
    /\ Busy
    /\ \E gone \in BOOLEAN :
         \E w \in {Disabled(World(disk))} :
           /\ Leave(w)
           /\ task' = delete_task(task, gone).task
           /\ op' = Op("silent-uninstall", w,
                       [Plain EXCEPT !.branch = IF gone THEN "removed" ELSE "failed"])
    /\ UNCHANGED <<session, now>>
    /\ UNCHANGED <<instance, ticks, schedule, picked, cycle, header>>

---------------------------------------------------------------------------
(* ScheduleFrequency *)

NoSchedule == [at |-> "none"]

\* the values of the enum; time is a string, hours a u32 (the model's
\* numbers end at 2^31 - 1)
AutoDaily == [kind |-> "AutoDaily", time |-> <<>>, hours |-> 0]
Daily(time) == [kind |-> "Daily", time |-> time, hours |-> 0]
Hourly == [kind |-> "Hourly", time |-> <<>>, hours |-> 0]
Hours3 == [kind |-> "Hours3", time |-> <<>>, hours |-> 0]
Hours6 == [kind |-> "Hours6", time |-> <<>>, hours |-> 0]
Custom(hours) == [kind |-> "Custom", time |-> <<>>, hours |-> hours]
Minute1Test == [kind |-> "Minute1Test", time |-> <<>>, hours |-> 0]

\* the times are the strings of up to MaxTime of the characters '0', '9'
\* and ':', the hour counts 0..MaxHours and the largest one
MaxTime == 3
MaxHours == 24
TimeChars == {48, 57, 58}
Times == UNION {[1..n -> TimeChars] : n \in 0..MaxTime}
BigHours == 2147483647
HourCounts == (0..MaxHours) \cup {BigHours}

Frequencies ==
    {AutoDaily, Hourly, Hours3, Hours6, Minute1Test}
      \cup {Daily(time) : time \in Times}
      \cup {Custom(hours) : hours \in HourCounts}

\* str::starts_with
StartsWith(s, t) == Len(s) >= Len(t) /\ SubSeq(s, 1, Len(t)) = t

\* str::ends_with
EndsWith(s, t) == Len(s) >= Len(t) /\ SubSeq(s, Len(s) - Len(t) + 1, Len(s)) = t

\* the number a string of decimal digits stands for
RECURSIVE Value(_)
Value(s) == IF s = <<>> THEN 0 ELSE Value(SubSeq(s, 1, Len(s) - 1)) * 10 + (s[Len(s)] - 48)

\* str::parse::<u32>(): an optional '+', then one or more decimal digits,
\* of a number that fits
ParseU32(s) ==
    LET d == IF s # <<>> /\ s[1] = 43 THEN Tail(s) ELSE s
        \* the digits without their leading zeros
        lead == {i \in 1..Len(d) : d[i] # 48}
        sig == IF lead = {} THEN <<>>
               ELSE SubSeq(d, CHOOSE i \in lead : \A j \in lead : i <= j, Len(d))
    IN  IF d = <<>> \/ \E i \in 1..Len(d) : d[i] \notin 48..57 THEN {}
        \* u32::MAX is 4294967295
        ELSE IF \/ Len(sig) > 10
                \/ Len(sig) = 10 /\ ~LexLess(sig, <<52, 50, 57, 52, 57, 54, 55, 50, 57, 54>>)
        THEN {}
        ELSE {Value(sig)}

\* a variant that writes the hours of a Custom frequency as "{:02}": what
\* C28_Interval must tell from to_interval
to_interval_padded(f) ==
    CASE f.kind \in {"AutoDaily", "Daily"} -> <<80, 49, 68>>
      [] f.kind = "Hourly"      -> <<80, 84, 49, 72>>
      [] f.kind = "Hours3"      -> <<80, 84, 51, 72>>
      [] f.kind = "Hours6"      -> <<80, 84, 54, 72>>
      [] f.kind = "Custom"      -> <<80, 84>> \o PadLeft(Digits(f.hours), 2) \o <<72>>
      [] f.kind = "Minute1Test" -> <<80, 84, 49, 77>>

\* to_interval: the repetition interval as an ISO 8601 duration
to_interval(f) ==
    CASE f.kind = "AutoDaily"   -> <<80, 49, 68>>
      [] f.kind = "Daily"       -> <<80, 49, 68>>
      [] f.kind = "Hourly"      -> <<80, 84, 49, 72>>
      [] f.kind = "Hours3"      -> <<80, 84, 51, 72>>
      [] f.kind = "Hours6"      -> <<80, 84, 54, 72>>
      [] f.kind = "Custom"      -> <<80, 84>> \o Digits(f.hours) \o <<72>>
      [] f.kind = "Minute1Test" -> <<80, 84, 49, 77>>

\* to_config_string
to_config_string(f) ==
    CASE f.kind = "AutoDaily"   -> <<97, 117, 116, 111, 95, 100, 97, 105, 108, 121>>
      [] f.kind = "Daily"       -> <<100, 97, 105, 108, 121, 58>> \o f.time
      [] f.kind = "Hourly"      -> <<104, 111, 117, 114, 108, 121>>
      [] f.kind = "Hours3"      -> <<51, 104, 111, 117, 114, 115>>
      [] f.kind = "Hours6"      -> <<54, 104, 111, 117, 114, 115>>
      [] f.kind = "Custom"      -> <<99, 117, 115, 116, 111, 109, 58>> \o Digits(f.hours)
      [] f.kind = "Minute1Test" -> <<116, 101, 115, 116, 95, 49, 109>>

\* a variant that takes a Custom frequency's hours from after "custom"
\* instead of after "custom:": what C27_Roundtrip must tell from
\* from_config_string
from_config_string_short(s) ==
    IF s = <<97, 117, 116, 111, 95, 100, 97, 105, 108, 121>> THEN {AutoDaily}
    ELSE IF StartsWith(s, <<100, 97, 105, 108, 121, 58>>) THEN {Daily(SubSeq(s, 7, Len(s)))}
    ELSE IF s = <<104, 111, 117, 114, 108, 121>> THEN {Hourly}
    ELSE IF s = <<51, 104, 111, 117, 114, 115>> THEN {Hours3}
    ELSE IF s = <<54, 104, 111, 117, 114, 115>> THEN {Hours6}
    ELSE IF StartsWith(s, <<99, 117, 115, 116, 111, 109, 58>>)
    THEN {Custom(hours) : hours \in ParseU32(SubSeq(s, 7, Len(s)))}
    ELSE IF s = <<116, 101, 115, 116, 95, 49, 109>> THEN {Minute1Test}
    ELSE {}

\* from_config_string: None is {}, Some(f) is {f}
from_config_string(s) ==
    IF s = <<97, 117, 116, 111, 95, 100, 97, 105, 108, 121>> THEN {AutoDaily}
    ELSE IF StartsWith(s, <<100, 97, 105, 108, 121, 58>>) THEN {Daily(SubSeq(s, 7, Len(s)))}
    ELSE IF s = <<104, 111, 117, 114, 108, 121>> THEN {Hourly}
    ELSE IF s = <<51, 104, 111, 117, 114, 115>> THEN {Hours3}
    ELSE IF s = <<54, 104, 111, 117, 114, 115>> THEN {Hours6}
    ELSE IF StartsWith(s, <<99, 117, 115, 116, 111, 109, 58>>)
    THEN {Custom(hours) : hours \in ParseU32(SubSeq(s, 8, Len(s)))}
    ELSE IF s = <<116, 101, 115, 116, 95, 49, 109>> \/ s = <<116, 101, 115, 116, 95, 49, 48, 115>> THEN {Minute1Test}
    ELSE {}

\* what is known of a frequency: the value, and what each conversion
\* returned once it was called ({} before)
Chosen(f) ==
    [at |-> "chosen", frequency |-> f, interval |-> {}, stored |-> {}, parsed |-> {}]

ToInterval ==
    /\ schedule.at = "chosen"
    /\ schedule.interval = {}
    /\ schedule' = [schedule EXCEPT !.interval = {to_interval(schedule.frequency)}]
    /\ op' = Idle
    /\ UNCHANGED <<disk, file, session, pool, bg, now, handed, reused, steps>>
    /\ UNCHANGED <<instance, ticks, picked, cycle, task, header>>

ToConfigString ==
    /\ schedule.at = "chosen"
    /\ schedule.stored = {}
    /\ schedule' = [schedule EXCEPT !.stored = {to_config_string(schedule.frequency)}]
    /\ op' = Idle
    /\ UNCHANGED <<disk, file, session, pool, bg, now, handed, reused, steps>>
    /\ UNCHANGED <<instance, ticks, picked, cycle, task, header>>

\* the stored string is parsed
FromConfigString ==
    /\ schedule.at = "chosen"
    /\ schedule.parsed = {}
    /\ \E s \in schedule.stored :
         schedule' = [schedule EXCEPT !.parsed = {from_config_string(s)}]
    /\ op' = Idle
    /\ UNCHANGED <<disk, file, session, pool, bg, now, handed, reused, steps>>
    /\ UNCHANGED <<instance, ticks, picked, cycle, task, header>>

---------------------------------------------------------------------------
(* picker_archive *)

NoPick == [at |-> "none"]

\* str::find and str::rfind: the place of the first and of the last
\* occurrence of t in s, counted from 1; 0 when there is none
Find(s, t) ==
    LET at == {i \in 1..(Len(s) - Len(t) + 1) : SubSeq(s, i, i + Len(t) - 1) = t}
    IN  IF at = {} THEN 0 ELSE CHOOSE i \in at : \A j \in at : i <= j

RFind(s, t) ==
    LET at == {i \in 1..(Len(s) - Len(t) + 1) : SubSeq(s, i, i + Len(t) - 1) = t}
    IN  IF at = {} THEN 0 ELSE CHOOSE i \in at : \A j \in at : i >= j

\* str::replace(t, ""): every occurrence of t taken out, left to right,
\* none overlapping another
RECURSIVE replace(_, _)
replace(s, t) ==
    IF Find(s, t) = 0 THEN s
    ELSE SubSeq(s, 1, Find(s, t) - 1)
             \o replace(SubSeq(s, Find(s, t) + Len(t), Len(s)), t)

BASE_UPLOADS == <<104, 116, 116, 112, 115, 58, 47, 47, 119, 105, 110, 100, 111, 119, 115, 49, 48, 115, 112, 111, 116, 108, 105, 103, 104, 116, 46, 99, 111, 109, 47, 119, 112, 45, 99, 111, 110, 116, 101, 110, 116, 47, 117, 112, 108, 111, 97, 100, 115, 47>>

UrlOk(url, asked) == [ok |-> TRUE, url |-> url, why |-> "", asked |-> asked]
UrlErr(why, asked) == [ok |-> FALSE, url |-> <<>>, why |-> why, asked |-> asked]

\* Case 3 of get_full_res_url once the page has come: the URL before the
\* first "1920w", else the first uploads URL of the page
FromPage(html) ==
    LET pos == Find(html, <<49, 57, 50, 48, 119>>)
        before == SubSeq(html, 1, pos - 1)
        url_start == IF pos = 0 THEN 0 ELSE RFind(before, BASE_UPLOADS)
        url_chunk == SubSeq(html, url_start, pos - 1)
        url_end == IF url_start = 0 THEN 0 ELSE RFind(url_chunk, <<46, 106, 112, 103>>)
        full_url == SubSeq(url_chunk, 1, url_end + 3)
        start == Find(html, BASE_UPLOADS)
        chunk == SubSeq(html, start, Len(html))
        end == IF start = 0 THEN 0 ELSE Find(chunk, <<46, 106, 112, 103>>)
        img_url == SubSeq(chunk, 1, end + 3)
    IN  IF /\ url_end # 0
           /\ ~Contains(full_url, <<45, 49, 48, 50, 52, 120, 53, 55, 54>>)
           /\ ~Contains(full_url, <<45, 51, 48, 48, 120, 49, 54, 57>>)
        THEN UrlOk(full_url, TRUE)
        ELSE IF end # 0
        THEN UrlOk(replace(replace(img_url, <<45, 49, 48, 50, 52, 120, 53, 55, 54>>), <<45, 51, 48, 48, 120, 49, 54, 57>>), TRUE)
        ELSE UrlErr("no image", TRUE)

\* get_full_res_url; page is what the site answers when asked: {} when the
\* request fails, {html} otherwise
get_full_res_url(url, page) ==
    IF /\ Contains(url, <<47, 119, 112, 45, 99, 111, 110, 116, 101, 110, 116, 47, 117, 112, 108, 111, 97, 100, 115, 47>>)
       /\ ~Contains(url, <<45, 49, 48, 50, 52, 120, 53, 55, 54>>)
       /\ ~Contains(url, <<45, 51, 48, 48, 120, 49, 54, 57>>)
       /\ EndsWith(url, <<46, 106, 112, 103>>)
    THEN UrlOk(url, FALSE)
    ELSE IF Contains(url, <<45, 49, 48, 50, 52, 120, 53, 55, 54, 46, 106, 112, 103>>)
    THEN UrlOk(replace(url, <<45, 49, 48, 50, 52, 120, 53, 55, 54>>), FALSE)
    ELSE IF Contains(url, <<45, 51, 48, 48, 120, 49, 54, 57, 46, 106, 112, 103>>)
    THEN UrlOk(replace(url, <<45, 51, 48, 48, 120, 49, 54, 57>>), FALSE)
    ELSE IF Contains(url, <<47, 105, 109, 97, 103, 101, 115, 47>>) \/ Contains(url, <<119, 105, 110, 100, 111, 119, 115, 49, 48, 115, 112, 111, 116, 108, 105, 103, 104, 116, 46, 99, 111, 109, 47>>)
    THEN IF page = {} THEN UrlErr("network", TRUE)
         ELSE CHOOSE r \in {FromPage(html) : html \in page} : TRUE
    ELSE UrlErr("unsupported", FALSE)

\* the URLs handed over: up to MaxParts pieces, one after the other
MaxParts == 3
UrlParts ==
    {<<97>>, <<45, 49, 48, 50, 52, 120, 53, 55, 54>>, <<45, 51, 48, 48, 120, 49, 54, 57>>, <<46, 106, 112, 103>>, <<47, 119, 112, 45, 99, 111, 110, 116, 101, 110, 116, 47, 117, 112, 108, 111, 97, 100, 115, 47>>,
     <<47, 105, 109, 97, 103, 101, 115, 47>>, <<119, 105, 110, 100, 111, 119, 115, 49, 48, 115, 112, 111, 116, 108, 105, 103, 104, 116, 46, 99, 111, 109, 47>>}

RECURSIVE Joined(_, _)
Joined(parts, n) ==
    IF n = 0 THEN {<<>>}
    ELSE {a \o b : a \in Joined(parts, n - 1), b \in parts \cup {<<>>}}

Urls == Joined(UrlParts, MaxParts) \ {<<>>}

\* the pages the site answers with
MaxPage == 4
PageParts == {BASE_UPLOADS \o <<97>>, <<45, 51, 48, 48, 120, 49, 54, 57>>, <<46, 106, 112, 103>>, <<32, 49, 57, 50, 48, 119>>}
Pages == Joined(PageParts, MaxPage)

Handed(url) == [at |-> "asked", url |-> url]

GetFullResUrl ==
    /\ picked.at = "asked"
    /\ \E page \in {{}} \cup {{html} : html \in Pages} :
         \E r \in {get_full_res_url(picked.url, page)} :
            picked' = [at |-> "done", url |-> picked.url, result |-> r]
    /\ op' = Idle
    /\ UNCHANGED <<disk, file, session, pool, bg, now, handed, reused, steps>>
    /\ UNCHANGED <<instance, ticks, schedule, cycle, task, header>>

---------------------------------------------------------------------------
(* The environment *)

\* the user sets the desktop wallpaper by hand: to a file of the folder, to
\* an image outside it (a key of no pool file), or to none
External == FileKey(FALSE, 0, "wallhaven", NoMid, <<120>>)

UserSetsWallpaper ==
    /\ \E b \in {{k} : k \in DOMAIN pool} \cup {{External}, {}} :
         /\ b # bg
         /\ bg' = b
    /\ op' = Idle
    /\ UNCHANGED <<disk, file, session, pool, now, handed, reused, steps>>
    /\ UNCHANGED aside

\* config.json is removed or damaged outside the program: deleted, cut to
\* text that does not parse, or overwritten with bytes that are not UTF-8
StoreDamaged ==
    /\ ~session.open
    /\ file = "whole"
    /\ file' \in {"missing", "torn", "garbled"}
    /\ disk' = DefaultConfig
    /\ op' = Idle
    /\ UNCHANGED <<session, pool, bg, now, handed, reused, steps>>
    /\ UNCHANGED aside

\* the clock moves on to one of the readings of S
Advance(S) ==
    /\ \E t \in S :
         /\ t > now
         /\ now' = t
    /\ op' = Idle
    /\ UNCHANGED <<disk, file, session, pool, bg, handed, reused, steps>>
    /\ UNCHANGED aside

\* readings around the ends of the one minute and one hour windows
RateInstants == {59, 60, 61}
MinutesPass == Advance(RateInstants)

\* a reading more than 30 days after the others
MonthInstants == {43262}
MonthPasses == Advance(MonthInstants)

---------------------------------------------------------------------------

\* no task instance and no auto-change process is running, and no conversion
\* was asked for
Apart ==
    /\ instance = FALSE
    /\ ticks = <<>>
    /\ schedule = NoSchedule
    /\ picked = NoPick
    /\ cycle = NoCycle
    /\ task = FALSE
    /\ header = NoRemaining

Init ==
    /\ disk = DefaultConfig
    /\ file = "missing"
    /\ session = [open |-> FALSE, cfg |-> DefaultConfig]
    /\ pool = <<>>
    /\ bg = {External}
    /\ now = 0
    /\ handed = {}
    /\ reused = FALSE
    /\ op = Idle
    /\ steps = 0
    /\ Apart

Next ==
    \/ Tick
    \/ SessionStart
    \/ SessionEnd
    \/ FetchSpotlight
    \/ FetchUnsplash
    \/ FetchWallhaven
    \/ FetchPexels
    \/ PickerMode
    \/ ResetConfig
    \/ SetSource
    \/ SetSourceKilled
    \/ StartFails
    \/ StoreDamaged
    \/ UserSetsWallpaper
    \/ MinutesPass
    \/ MonthPasses
    \/ TaskTriggered
    \/ WrapperRuns
    \/ TickEnds
    \/ FetchCycle
    \/ ToInterval
    \/ ToConfigString
    \/ FromConfigString
    \/ GetFullResUrl
    \/ CycleBegins
    \/ Evaluates
    \/ Resyncs
    \/ Advances
    \/ Exhausts
    \/ UndisturbedTick
    \/ Schedule
    \/ TestFlicker
    \/ Unschedule
    \/ SilentUninstall
    \/ ParseRateLimitHeaders

Spec == Init /\ [][Next]_vars

\* the rotation: the scheduled process, the user's own wallpaper changes and
\* a session that fetches from Wallhaven, with Spotlight or Wallhaven as the
\* source
InitRotation ==
    /\ disk \in {DefaultConfig, [DefaultConfig EXCEPT !.source = "wallhaven"]}
    /\ file = IF disk = DefaultConfig THEN "missing" ELSE "whole"
    /\ session = [open |-> FALSE, cfg |-> DefaultConfig]
    /\ pool = <<>>
    /\ bg = {External}
    /\ now = 0
    /\ handed = {}
    /\ reused = FALSE
    /\ op = Idle
    /\ steps = 0
    /\ Apart

NextRotation ==
    \/ Tick
    \/ UserSetsWallpaper
    \/ SessionStart
    \/ SessionEnd
    \/ FetchWallhaven

SpecRotation == InitRotation /\ [][NextRotation]_vars

\* the sequencer: everything that hands out ordinals with Spotlight as the
\* source, the reset and the monthly cleanup
NextSequencer ==
    \/ Tick
    \/ SessionStart
    \/ SessionEnd
    \/ FetchSpotlight
    \/ PickerMode
    \/ ResetConfig
    \/ MonthPasses

SpecSequencer == Init /\ [][NextSequencer]_vars

\* the rate limiters: a rate-limited source was chosen (and its key entered)
\* in an earlier session
Configured(source) ==
    [DefaultConfig EXCEPT !.source = source, !.unsplash_key = TRUE, !.pexels_key = TRUE]

\* Wallhaven two requests short of the refusal, in the minute that began at 0
NearLimit ==
    [Configured("wallhaven") EXCEPT !.requests_this_minute = WallhavenLimit - 2,
                                    !.minute_window_start = {0}]

InitRate ==
    /\ disk \in {Configured(source) : source \in Limited} \cup {NearLimit}
    /\ file = "whole"
    /\ session = [open |-> FALSE, cfg |-> DefaultConfig]
    /\ pool = <<>>
    /\ bg = {External}
    /\ now = 0
    /\ handed = {}
    /\ reused = FALSE
    /\ op = Idle
    /\ steps = 0
    /\ Apart

NextRate ==
    \/ SessionStart
    \/ SessionEnd
    \/ FetchUnsplash
    \/ FetchWallhaven
    \/ FetchPexels
    \/ MinutesPass

SpecRate == InitRate /\ [][NextRate]_vars

\* the scheduled process with a rate-limited source, next to a session that
\* fetches from Unsplash
NextSilent ==
    \/ Tick
    \/ SessionStart
    \/ SessionEnd
    \/ FetchUnsplash

InitSilent == InitRate /\ disk.requests_this_minute = 0

SpecSilent == InitSilent /\ [][NextSilent]_vars

\* the store: sessions that choose a source or reset, processes killed
\* while they save, a store file damaged from outside, and the ticks
NextStore ==
    \/ Tick
    \/ SessionStart
    \/ SessionEnd
    \/ SetSource
    \/ ResetConfig
    \/ SetSourceKilled
    \/ StartFails
    \/ StoreDamaged

SpecStore == Init /\ [][NextStore]_vars

\* the fetch command with cycles of up to MaxCycle images
NextFetch ==
    \/ SessionStart
    \/ SessionEnd
    \/ FetchCycle

SpecFetch == Init /\ [][NextFetch]_vars

\* the conversions of ScheduleFrequency, applied to every frequency of
\* Frequencies
InitFrequency ==
    /\ disk = DefaultConfig
    /\ file = "missing"
    /\ session = [open |-> FALSE, cfg |-> DefaultConfig]
    /\ pool = <<>>
    /\ bg = {External}
    /\ now = 0
    /\ handed = {}
    /\ reused = FALSE
    /\ op = Idle
    /\ steps = 0
    /\ instance = FALSE
    /\ ticks = <<>>
    /\ schedule \in {Chosen(f) : f \in Frequencies}
    /\ picked = NoPick
    /\ cycle = NoCycle
    /\ task = FALSE
    /\ header = NoRemaining

NextFrequency ==
    \/ ToInterval
    \/ ToConfigString
    \/ FromConfigString

SpecFrequency == InitFrequency /\ [][NextFrequency]_vars

\* get_full_res_url, applied to every URL of Urls
InitArchive ==
    /\ disk = DefaultConfig
    /\ file = "missing"
    /\ session = [open |-> FALSE, cfg |-> DefaultConfig]
    /\ pool = <<>>
    /\ bg = {External}
    /\ now = 0
    /\ handed = {}
    /\ reused = FALSE
    /\ op = Idle
    /\ steps = 0
    /\ instance = FALSE
    /\ ticks = <<>>
    /\ schedule = NoSchedule
    /\ picked \in {Handed(url) : url \in Urls}
    /\ cycle = NoCycle
    /\ task = FALSE
    /\ header = NoRemaining

NextArchive == GetFullResUrl

SpecArchive == InitArchive /\ [][NextArchive]_vars

\* the ledger and the folder: ids of one character, an id the file name
\* truncates to 8 characters, an id with a '_' in it; the files fetch_spotlight
\* wrote for them, of which the user has deleted some; a ledger that a reset
\* or an earlier sync has shortened
IdLong == <<97, 98, 99, 100, 101, 102, 103, 104, 105>>
IdUnder == <<97, 95, 98>>
LedgerIds == {IdA, IdB, IdLong, IdUnder}
MaxLedger == 2
Ledgers ==
    {l \in UNION {[1..n -> LedgerIds] : n \in 0..MaxLedger} : NoDup(l)}
LedgerFiles ==
    { FileKey(TRUE, 1, "spotlight", TitleMid, Trunc8(IdA)),
      FileKey(TRUE, 2, "spotlight", TitleMid, Trunc8(IdLong)),
      FileKey(TRUE, 3, "spotlight", TitleMid, Trunc8(IdUnder)) }

\* the next ordinal of a folder whose files were numbered in order
NextOrdinal(S) ==
    1 + Cardinality({n \in 1..3 : \E k \in S : k.ord >= n})

InitLedger ==
    /\ \E l \in Ledgers, S \in SUBSET LedgerFiles :
         /\ disk = [DefaultConfig EXCEPT !.downloaded_ids = l,
                                         !.next_seq_number = NextOrdinal(S)]
         /\ pool = [k \in S |-> 0]
    /\ file = "whole"
    /\ session = [open |-> FALSE, cfg |-> DefaultConfig]
    /\ bg = {External}
    /\ now = 0
    /\ handed = {}
    /\ reused = FALSE
    /\ op = Idle
    /\ steps = 0
    /\ Apart

NextLedger ==
    \/ Tick
    \/ SessionStart
    \/ SessionEnd

SpecLedger == InitLedger /\ [][NextLedger]_vars

\* the process step by step: folders of up to three files, one of them
\* without a sequence prefix, every cursor up to MaxIndex, Spotlight or
\* Wallhaven as the source, and as wallpaper a file of the folder, a file
\* outside it, or none that can be read
CycleFiles ==
    << FileKey(TRUE, 1, "spotlight", TitleMid, IdA),
       FileKey(TRUE, 2, "spotlight", TitleMid, IdB),
       FileKey(FALSE, 0, "wallhaven", NoMid, <<121>>) >>

CyclePools ==
    {{CycleFiles[i] : i \in 1..n} : n \in 0..3} \cup {{CycleFiles[3]}}

InitCycle ==
    /\ \E S \in CyclePools, index \in 0..MaxIndex, source \in {"spotlight", "wallhaven"} :
         /\ disk = [DefaultConfig EXCEPT !.source = source,
                                         !.auto_change_index = index,
                                         !.next_seq_number = NextOrdinal(S)]
         /\ pool = [k \in S |-> 0]
         /\ bg \in {{}, {External}} \cup {{k} : k \in S}
    /\ file = "whole"
    /\ session = [open |-> FALSE, cfg |-> DefaultConfig]
    /\ now = 0
    /\ handed = {}
    /\ reused = FALSE
    /\ op = Idle
    /\ steps = 0
    /\ Apart

\* the undisturbed rotation: a folder of one to MaxShow prefixed files, the
\* cursor at 0, a wallpaper from outside the folder; nothing but ticks, the
\* reader reporting the wallpaper that is set and every setting succeeding
MaxShow == 3

ShowFiles ==
    << CycleFiles[1], CycleFiles[2], FileKey(TRUE, 3, "wallhaven", NoMid, <<121>>) >>

InitShow ==
    /\ \E n \in 1..MaxShow, source \in {"spotlight", "wallhaven"} :
         /\ disk = [DefaultConfig EXCEPT !.source = source,
                                         !.next_seq_number = n + 1]
         /\ pool = [k \in {ShowFiles[i] : i \in 1..n} |-> 0]
    /\ file = "whole"
    /\ session = [open |-> FALSE, cfg |-> DefaultConfig]
    /\ bg = {External}
    /\ now = 0
    /\ handed = {}
    /\ reused = FALSE
    /\ op = Idle
    /\ steps = 0
    /\ Apart

NextShow == UndisturbedTick

SpecShow == InitShow /\ [][NextShow]_vars

\* the task and the flag: sessions that schedule, test, unschedule and
\* reset, the uninstaller, and a store that is lost or damaged, over an
\* empty folder or a folder of one file
InitTask ==
    /\ disk = DefaultConfig
    /\ file = "missing"
    /\ session = [open |-> FALSE, cfg |-> DefaultConfig]
    /\ \E S \in {{}, {CycleFiles[1]}} : pool = [k \in S |-> 0]
    /\ bg = {External}
    /\ now = 0
    /\ handed = {}
    /\ reused = FALSE
    /\ op = Idle
    /\ steps = 0
    /\ Apart

NextTask ==
    \/ SessionStart
    \/ SessionEnd
    \/ Schedule
    \/ TestFlicker
    \/ Unschedule
    \/ ResetConfig
    \/ SilentUninstall
    \/ StoreDamaged

SpecTask == InitTask /\ [][NextTask]_vars

\* the header parser alone
InitHeader ==
    /\ disk = DefaultConfig
    /\ file = "missing"
    /\ session = [open |-> FALSE, cfg |-> DefaultConfig]
    /\ pool = <<>>
    /\ bg = {External}
    /\ now = 0
    /\ handed = {}
    /\ reused = FALSE
    /\ op = Idle
    /\ steps = 0
    /\ instance = FALSE
    /\ ticks = <<>>
    /\ schedule = NoSchedule
    /\ picked = NoPick
    /\ cycle = NoCycle
    /\ task = FALSE
    /\ header \in {Remaining(<<high, low>>) : high \in HighHalves, low \in LowHalves}

NextHeader == ParseRateLimitHeaders

SpecHeader == InitHeader /\ [][NextHeader]_vars

NextCycle ==
    \/ CycleBegins
    \/ Evaluates
    \/ Resyncs
    \/ Advances
    \/ Exhausts

\* a process that is running takes its next step
FairCycle ==
    /\ WF_vars(Evaluates)
    /\ WF_vars(Resyncs)
    /\ WF_vars(Advances)
    /\ WF_vars(Exhausts)

SpecCycle == InitCycle /\ [][NextCycle]_vars /\ FairCycle

\* the scheduled task: its triggers, its wrapper, and the processes the
\* wrapper starts
NextScheduler ==
    \/ TaskTriggered
    \/ WrapperRuns
    \/ TickEnds

SpecScheduler == Init /\ [][NextScheduler]_vars

---------------------------------------------------------------------------
(* The rotation cursor *)

TickStep == op'.kind = "tick"

\* where the current wallpaper stands in the sorted folder
BgPosition == Position(SortedFiles(DOMAIN pool), CHOOSE k \in bg : TRUE) - 1

\* C1 as stated: across any sequence of ticks, the resynchronising ones
\* included, the persisted cursor auto_change_index after a tick is at least
\* its value before the tick.
C1_AsStated ==
    [][TickStep => disk'.auto_change_index >= disk.auto_change_index]_vars

\* C1, amended: a tick that does not resynchronise leaves the persisted
\* cursor where it was or moves it up by one; a tick that resynchronises after
\* a manual wallpaper change sets it to p + 1, p being the position of the
\* current wallpaper in the sorted folder, whatever it was before (p + 2 once
\* the tick has advanced), so that only such a tick lowers the cursor.
C1_Cursor ==
    [][TickStep =>
         IF op'.resync
         THEN disk'.auto_change_index \in {BgPosition + 1, BgPosition + 2}
         ELSE disk'.auto_change_index \in
                {disk.auto_change_index, disk.auto_change_index + 1}]_vars

\* a tick resynchronised and left the cursor lower than it found it
C1_Witness ==
    /\ op.kind = "tick"
    /\ op.resync
    /\ disk.auto_change_index < op.index0

---------------------------------------------------------------------------
(* The sequencer *)

\* C2 as stated: the ordinals get_next_seq_prefix hands out are pairwise
\* distinct; no ordinal is handed out twice, whatever downloads failed and
\* whatever cleanup_old_data deleted.
C2_NoReuse == ~reused

\* C3 as stated: in every reachable state no two files of the folder carry
\* the same ordinal prefix.
C3_Injective ==
    \A k1, k2 \in DOMAIN pool :
        (k1.pre /\ k2.pre /\ k1.ord = k2.ord) => k1 = k2

\* C4 as stated: every ordinal a command or tick took is persisted before the
\* download that uses it, so that when the invocation is over, however it
\* ended, the next_seq_number of the store is beyond each ordinal it took.
C4_ReserveBefore ==
    \A n \in SeqSet(op.seqs) : disk.next_seq_number > n

\* C5 as stated: every file the program downloads into the folder, by
\* whatever source and path, gets an ordinal prefix.
C5_AllPrefixed ==
    \A k \in DOMAIN pool : HasSeqPrefix(FileName(k))

---------------------------------------------------------------------------
(* The rate limiters *)

\* the step is a fetch command of the session, from src, with its key set
FetchStep(src) ==
    /\ op'.kind = "fetch"
    /\ session.open
    /\ session.cfg.source = src
    /\ src = "unsplash" => session.cfg.unsplash_key
    /\ src = "pexels" => session.cfg.pexels_key

\* the session's window of src is recorded and t is this far into it
Elapsed(cfg, src, t) == t - (CHOOSE x \in WindowStart(cfg, src) : TRUE)

\* C6 as stated: for each rate-limited source, a check that runs while a
\* window is recorded, less than the window length has elapsed and the count
\* is at least quota - margin, rejects, and the command sends no request.
C6_Rejects ==
    [][\A src \in Limited :
         ( /\ FetchStep(src)
           /\ WindowStart(session.cfg, src) # {}
           /\ Elapsed(session.cfg, src, now) < Window(src)
           /\ Count(session.cfg, src) >= Limit(src) )
         => (src \in op'.rejected /\ src \notin op'.sent)]_vars

\* the check's outcome c allows, with the count at 0 and the window begun at t
Restarted(c, src, t) ==
    /\ c.ok
    /\ Count(c.w.cfg, src) = 0
    /\ WindowStart(c.w.cfg, src) = {t}

\* C7: for each rate-limited source, a check made when now - window_start >=
\* window length succeeds whatever the recorded count is, having set the count
\* to 0 and window_start to now; the fetch command that runs it is allowed and
\* leaves the window begun at now.
C7_WindowReset ==
    [][\A src \in Limited :
         ( /\ FetchStep(src)
           /\ WindowStart(session.cfg, src) # {}
           /\ Elapsed(session.cfg, src, now) >= Window(src) )
         => /\ src = "unsplash" =>
                 Restarted(check_unsplash_rate_limit(World(session.cfg), now), src, now)
            /\ src = "wallhaven" =>
                 Restarted(check_wallhaven_rate_limit(World(session.cfg), now), src, now)
            /\ src = "pexels" =>
                 Restarted(check_pexels_rate_limit(World(session.cfg), now), src, now)
            /\ src \in op'.allowed
            /\ src \notin op'.rejected
            /\ \E r \in op'.reset : r.src = src
            /\ WindowStart(session'.cfg, src) = {now}]_vars

\* a fetch command was allowed after its check began a new window over a
\* count that is refused within a window
C7_Witness ==
    /\ op.kind = "fetch"
    /\ \E r \in op.reset : r.full /\ r.src \in op.allowed /\ r.src \in op.sent
    /\ now > 0

\* C8 as stated: every request sent to a rate-limited source, by a fetch
\* command or by the silent fetch of a tick, comes after a rate check of that
\* source that allowed it, in the same invocation.
C8_CheckedFirst == op.sent \subseteq op.allowed

\* C9 as stated: in every reachable state each source's counter is at most
\* the source's quota, in the store and in the session.
C9_WithinQuota ==
    \A src \in Limited :
        /\ Count(disk, src) <= Quota(src)
        /\ session.open => Count(session.cfg, src) <= Quota(src)

\* C10 as stated: for every rate-limited source, when the persisted counter
\* is above the source's quota, the next rate check sets the count to 0,
\* restarts the window and allows.
C10_SanityReset ==
    /\ Count(disk, "unsplash") > Quota("unsplash") =>
         Restarted(check_unsplash_rate_limit(World(disk), now), "unsplash", now)
    /\ Count(disk, "wallhaven") > Quota("wallhaven") =>
         Restarted(check_wallhaven_rate_limit(World(disk), now), "wallhaven", now)
    /\ Count(disk, "pexels") > Quota("pexels") =>
         Restarted(check_pexels_rate_limit(World(disk), now), "pexels", now)

---------------------------------------------------------------------------
(* The dedup ledgers *)

\* the files a step wrote: created, or written over at a later instant
Written == {k \in DOMAIN pool' : k \notin DOMAIN pool \/ pool'[k] # pool[k]}

\* the ledger a handler consults for the id of a Spotlight image: the tick
\* and the fetch command read spotlight.downloaded_ids after the folder sync,
\* the picker has spotlight_archive.downloaded_ids
LedgerBefore ==
    CASE op'.kind = "tick" ->
           sync_spotlight_config_with_folder(World(disk)).cfg.downloaded_ids
      [] op'.kind = "fetch" ->
           sync_spotlight_config_with_folder(World(session.cfg)).cfg.downloaded_ids
      [] op'.kind = "pick" -> session.cfg.archive_ids
      [] OTHER -> <<>>

\* C11: a candidate whose id is already in its source's ledger is never
\* downloaded again, by the fetch command, the picker or the silent fetch of
\* a tick: no step writes a Spotlight file for an id its ledger held when
\* the step began.
C11_NoRedownload ==
    [][\A k \in Written : k.tag = "spotlight" => ~InSeq(LedgerBefore, k.id)]_vars

\* C12: recording an id that a ledger already holds leaves the ledger
\* unchanged: no ledger, in the store or in the session's Config, holds an
\* id twice.
C12_NoDuplicate ==
    /\ NoDup(disk.downloaded_ids)
    /\ NoDup(disk.archive_ids)
    /\ NoDup(session.cfg.downloaded_ids)
    /\ NoDup(session.cfg.archive_ids)

\* an id was recorded a second time: two files of the folder carry the id
\* of one ledger entry
C12_Witness ==
    \E k1, k2 \in DOMAIN pool :
       /\ k1 # k2
       /\ k1.tag = "spotlight" /\ k2.tag = "spotlight"
       /\ k1.id = k2.id /\ k1.mid = k2.mid
       /\ \/ k1.mid = TitleMid /\ InSeq(disk.downloaded_ids, k1.id)
          \/ k1.mid = NoMid /\ InSeq(disk.archive_ids, k1.id)

---------------------------------------------------------------------------
(* The branches of a tick *)

\* total_count of the folder a tick finds
PoolSize == Cardinality(DOMAIN pool)

\* a tick whose smart index sync found a manual change
ResyncStep == TickStep /\ op'.resync

\* C13 as stated: a tick that resynchronises to p + 1 acts on the file at
\* (p + 1) mod pool_size of the sorted pool.
C13_AsStated ==
    [][ResyncStep =>
         op'.target = {SortedFiles(DOMAIN pool)[((BgPosition + 1) % PoolSize) + 1]}]_vars

\* C13: a tick that resynchronises stores cursor p + 1, p being the sorted
\* position of the current background. When p + 1 < pool_size it sets the
\* file at p + 1 and ends with cursor p + 2. When p + 1 = pool_size the pool
\* is exhausted and the tick fetches: on a fetch error it ends with cursor
\* p + 1 and nothing set; else it sets the file with the highest sequence
\* prefix of the new listing, or the first file of the listing when no file
\* has a prefix, and ends with cursor p + 2.
C13_Resync ==
    [][ResyncStep =>
         /\ bg' = bg \/ bg' = op'.target
         /\ IF BgPosition + 1 < PoolSize
            THEN /\ op'.branch = "normal"
                 /\ op'.target = {SortedFiles(DOMAIN pool)[BgPosition + 2]}
                 /\ disk'.auto_change_index = BgPosition + 2
            ELSE \/ /\ op'.branch = "error"
                    /\ op'.target = {}
                    /\ disk'.auto_change_index = BgPosition + 1
                 \/ /\ op'.branch = "exhausted"
                    /\ op'.target = Newest(DOMAIN pool')
                    /\ disk'.auto_change_index = BgPosition + 2
                 \/ /\ op'.branch = "normal"
                    /\ Newest(DOMAIN pool') = {}
                    /\ op'.target = {SortedFiles(DOMAIN pool')[1]}
                    /\ disk'.auto_change_index = BgPosition + 2]_vars

\* a tick resynchronised onto the last file, fetched, and set the newest
\* file, which is not the first of the pool
C13_Witness ==
    /\ op.kind = "tick" /\ op.resync /\ op.branch = "exhausted"
    /\ op.target # {SortedFiles(DOMAIN pool)[1]}
    /\ bg = op.target

\* the files of a folder whose name has the NNNN_ prefix
Prefixed(S) == {k \in S : HasSeqPrefix(FileName(k))}

\* C14: in the exhaustion branch, after the fetch and the re-listing, the
\* file set as background is one with the numerically highest 4-digit prefix
\* among the files matching NNNN_, never an unprefixed file; a tick whose
\* pool was exhausted falls through to the file at the cursor only when no
\* file of the pool has a prefix.
C14_HighestPrefix ==
    [][TickStep =>
         /\ op'.branch = "exhausted" =>
              /\ \E k \in Prefixed(DOMAIN pool') :
                   /\ op'.target = {k}
                   /\ \A y \in Prefixed(DOMAIN pool') :
                        ParseSeq(FileName(y)) <= ParseSeq(FileName(k))
              /\ bg' = bg \/ bg' = op'.target
         /\ (op'.branch = "normal" /\ PoolSize > 0
               /\ disk'.auto_change_index - 1 >= PoolSize) =>
              Prefixed(DOMAIN pool') = {}]_vars

\* the exhaustion branch set a prefixed file while an unprefixed file is the
\* last of the pool in filename order
C14_Witness ==
    /\ op.kind = "tick" /\ op.branch = "exhausted"
    /\ bg = op.target
    /\ bg \subseteq Prefixed(DOMAIN pool)
    /\ ~HasSeqPrefix(FileName(SortedFiles(DOMAIN pool)[Cardinality(DOMAIN pool)]))

\* a tick that finds the cursor at or past the end of a pool it did not
\* have to resynchronise on
ExhaustedStep ==
    TickStep /\ ~op'.resync /\ PoolSize > 0 /\ disk.auto_change_index >= PoolSize

\* C15: a tick that reaches the exhaustion branch and whose fetch adds no
\* file leaves the pool as it was and is a no-op: no background is set and
\* the cursor is not changed.
C15_NoOp ==
    [][(ExhaustedStep /\ pool' = pool) =>
         /\ op'.target = {}
         /\ bg' = bg
         /\ disk'.auto_change_index = disk.auto_change_index]_vars

\* a tick that finds the folder empty and leaves it empty
EmptyStep == TickStep /\ DOMAIN pool = {} /\ DOMAIN pool' = {}

\* C16 as stated: such a tick changes nothing of the store and sets no
\* background.
C16_AsStated ==
    [][EmptyStep => (disk' = disk /\ bg' = bg /\ op'.target = {})]_vars

\* C16: a tick that finds the pool empty and whose silent fetch yields no
\* file sets no background and leaves the cursor, last_auto_change, the
\* sequence counter, the request counters and the archive ledger of the
\* store as they were; the Spotlight ledger is emptied by the folder sync,
\* since no file of the folder vouches for its entries.
C16_EmptyPool ==
    [][EmptyStep =>
         /\ disk' = [disk EXCEPT !.downloaded_ids = <<>>]
         /\ bg' = bg
         /\ op'.target = {}
         /\ op'.branch \in {"nopool", "error"}]_vars

\* a tick found the pool empty, fetched nothing, and the store lost the
\* ledger entries that a session loaded earlier still has
C16_Witness ==
    /\ op.kind = "tick" /\ op.branch \in {"nopool", "error"}
    /\ DOMAIN pool = {}
    /\ disk.downloaded_ids = <<>>
    /\ session.open /\ session.cfg.downloaded_ids # <<>>
    /\ disk.next_seq_number = 1 /\ op.seqs # <<>>

\* the dedup ledger the Config keeps for a source: SpotlightConfig has
\* downloaded_ids; UnsplashConfig, WallhavenConfig and PexelsConfig have no
\* such field
Ledger(cfg, source) == IF source = "spotlight" THEN cfg.downloaded_ids ELSE <<>>

\* C17: a tick that starts with an empty pool and the cursor at 0, and
\* whose silent fetch downloads a candidate, ends with exactly one file in
\* the pool, the candidate's id in the ledger of the source it came from,
\* that file chosen as background, and the cursor at 1.
C17_FirstFile ==
    [][(TickStep /\ DOMAIN pool = {} /\ disk.auto_change_index = 0
          /\ DOMAIN pool' # {}) =>
         /\ Cardinality(DOMAIN pool') = 1
         /\ \A k \in DOMAIN pool' : InSeq(Ledger(disk', k.tag), k.id)
         /\ op'.target = DOMAIN pool'
         /\ disk'.auto_change_index = 1]_vars

---------------------------------------------------------------------------
(* The fallback of the silent fetch *)

\* C18: in a tick whose silent fetch sent the active rate-limited source a
\* request and got no file of that source, for whatever reason, the
\* Spotlight API is asked in the same tick.
C18_FallsBack ==
    [][(TickStep /\ disk.source \in op'.sent
          /\ ~\E k \in Written : k.tag = disk.source) => op'.spotlight]_vars

---------------------------------------------------------------------------
(* The config store *)

\* C19: every write of the store is atomic: whenever a process dies in
\* save_config, config.json afterwards holds the complete previous or the
\* complete new Config, never a torn, truncated or empty one.
C19_AtomicSave == op.kind = "killed" => file \in {"missing", "whole"}

\* C20: a process that starts on a missing or corrupt config.json is never
\* aborted: startup completes, and the Config in memory is Config::default().
C20_LoadsDefaults ==
    [][(file # "whole" /\ op'.kind \in {"start", "tick", "abort"}) =>
         /\ op'.kind # "abort"
         /\ (op'.kind = "start" /\ DOMAIN pool = {}) => session'.cfg = DefaultConfig]_vars

---------------------------------------------------------------------------
(* Saving and resetting the store *)

\* the invocations that run to their end with a Config loaded
Completed == {"tick", "start", "fetch", "pick", "reset", "noreset", "source"}

\* C21: the store is written after every state mutation: whenever a tick or
\* a command completes, on its success path and on every early return or
\* error path, the persisted store equals the Config the process has in
\* memory, so that nothing it changed is left unsaved.
C21_WrittenAfter == op.kind \in Completed => op.saved

\* every field of cfg has the value Config::default() gives it
Defaults(cfg) ==
    /\ cfg.source = "spotlight"
    /\ cfg.auto_change_index = 0
    /\ cfg.last_auto_change = {}
    /\ cfg.next_seq_number = 1
    /\ cfg.downloaded_ids = <<>> /\ cfg.archive_ids = <<>>
    /\ cfg.requests_used = 0 /\ cfg.rate_limit_reset_time = {}
    /\ cfg.requests_this_minute = 0 /\ cfg.minute_window_start = {}
    /\ cfg.requests_this_hour = 0 /\ cfg.hour_window_start = {}
    /\ ~cfg.unsplash_key /\ ~cfg.pexels_key

\* C22: a confirmed reset_config sets every persisted field to its default
\* (source spotlight, cursor 0, no last_auto_change, sequence counter 1,
\* empty ledgers, zero request counters with no window, no API key) and
\* leaves the files of the folder as they are; a declined one changes
\* neither the store nor the folder.
C22_FullReset ==
    [][/\ op'.kind = "reset" =>
            /\ Defaults(disk') /\ file' = "whole"
            /\ Defaults(session'.cfg)
            /\ pool' = pool
       /\ op'.kind = "noreset" =>
            /\ disk' = disk /\ file' = file
            /\ session'.cfg = session.cfg
            /\ pool' = pool]_vars

\* a reset was confirmed after ordinals were handed out and files written:
\* the counter is back at 1 and the files are still there
C22_Witness ==
    /\ op.kind = "reset"
    /\ DOMAIN pool # {}
    /\ handed # {}
    /\ disk.next_seq_number = 1
    /\ disk.downloaded_ids = <<>>

---------------------------------------------------------------------------
(* The scheduled task *)

\* C23: no two rotation ticks ever run at the same time: while one
\* auto-change process the task started is still running, the scheduler's
\* IgnoreNew policy keeps a second one from starting.
C23_OneAtATime == Len(ticks) <= 1

---------------------------------------------------------------------------
(* A tick whose wallpaper cannot be set *)

\* the cursor a tick works with: the one it loaded, or after a smart index
\* sync the position of the current wallpaper plus one
CurrentIndex == IF op'.resync THEN BgPosition + 1 ELSE disk.auto_change_index

\* a tick chose a target and the wallpaper is not that file afterwards:
\* set_wallpaper_windows returned an error
SetFailed == TickStep /\ op'.target # {} /\ bg' # op'.target

\* C24: when the OS call that sets the background fails in a tick after a
\* target was chosen, in the normal case or in the exhaustion branch, the
\* failure is only logged: the wallpaper stays, the cursor advances by
\* exactly 1 and is persisted with last_auto_change, as after a successful
\* set, and the tick returns without error.
C24_SetFails ==
    [][SetFailed =>
         /\ bg' = bg
         /\ op'.branch \in {"normal", "exhausted"}
         /\ disk'.auto_change_index = CurrentIndex + 1
         /\ disk'.last_auto_change = {now}
         /\ op'.saved
         /\ op'.ret = "ok"]_vars

\* a tick of the exhaustion branch chose the newest file, could not set it,
\* and left the cursor one further
C24_Witness ==
    /\ op.kind = "tick" /\ op.branch = "exhausted" /\ ~op.resync
    /\ op.target # {} /\ bg # op.target
    /\ disk.auto_change_index = op.index0 + 1
    /\ op.ret = "ok"

---------------------------------------------------------------------------
(* The fetch cycle *)

\* C25: in the interactive fetch, a failure on one item (connection error,
\* error status, read error or file write error) does not abort the cycle:
\* every remaining candidate is still attempted, so that when the command is
\* over each of its candidates has ended as downloaded, skipped as a
\* duplicate, or failed.
C25_CycleCompletes == op.kind = "fetch" => Len(op.report) = op.candidates

---------------------------------------------------------------------------
(* The reconciliation pass *)

\* some Spotlight file of the folder has an id segment that contains id or
\* is contained in it
Vouched(id) ==
    \E file_id \in SpotlightIds(DOMAIN pool) :
        Contains(file_id, id) \/ Contains(id, file_id)

\* the file fetch_spotlight wrote for id is in the folder
OwnFile(id) ==
    \E k \in DOMAIN pool :
        k.tag = "spotlight" /\ k.mid = TitleMid /\ k.id = Trunc8(id)

\* C26: after the reconciliation pass of a tick the ledger holds exactly the
\* previously recorded ids for which some remaining Spotlight file's id
\* segment contains the id or is contained in it, in their order: every
\* other id is removed, an id whose own file is still in the folder is never
\* removed, and the pass adds no id (what follows the kept ids in the ledger
\* after the tick is the id of a file the tick itself downloaded).
C26_Reconciled ==
    [][TickStep =>
         LET kept == SelectSeq(disk.downloaded_ids, Vouched)
             after == disk'.downloaded_ids
         IN  /\ Len(after) >= Len(kept)
             /\ SubSeq(after, 1, Len(kept)) = kept
             /\ \A i \in (Len(kept) + 1)..Len(after) :
                  \E k \in Written : k.tag = "spotlight" /\ k.id = Trunc8(after[i])
             /\ \A i \in 1..Len(disk.downloaded_ids) :
                  OwnFile(disk.downloaded_ids[i]) => InSeq(after, disk.downloaded_ids[i])]_vars

\* a tick's pass removed an id that a session loaded earlier still has, and
\* kept the long id on the strength of its truncated file name
C26_Witness ==
    /\ op.kind = "tick"
    /\ InSeq(disk.downloaded_ids, IdLong)
    /\ OwnFile(IdLong)
    /\ session.open
    /\ \E i \in 1..Len(session.cfg.downloaded_ids) :
         ~InSeq(disk.downloaded_ids, session.cfg.downloaded_ids[i])

---------------------------------------------------------------------------
(* ScheduleFrequency: the config string and the interval *)

\* C27: for every ScheduleFrequency value f (AutoDaily, Daily with any time,
\* Hourly, Hours3, Hours6, Custom with any hour count, Minute1Test),
\* from_config_string(to_config_string(f)) = Some(f).
C27_Roundtrip ==
    (schedule.at = "chosen" /\ schedule.parsed # {}) =>
        schedule.parsed = {{schedule.frequency}}

\* the string of a Custom frequency of two digits or more, and that of a
\* Daily one whose time has a ':', were parsed
C27_Witness ==
    /\ schedule.at = "chosen"
    /\ schedule.parsed # {}
    /\ \/ schedule.frequency.kind = "Custom" /\ schedule.frequency.hours >= 10
       \/ schedule.frequency.kind = "Daily" /\ InSeq(schedule.frequency.time, 58)

\* s is the decimal numeral of n: digits only, no leading zero
Numeral(s, n) ==
    /\ s # <<>>
    /\ \A i \in 1..Len(s) : s[i] \in 48..57
    /\ Len(s) > 1 => s[1] # 48
    /\ Value(s) = n

\* C28: to_interval maps Hourly, Hours3 and Hours6 to PT1H, PT3H and PT6H,
\* every Custom frequency of h hours to PT<h>H, and every daily frequency
\* (AutoDaily, Daily with any time) to P1D.
C28_Interval ==
    (schedule.at = "chosen" /\ schedule.interval # {}) =>
        \A s \in schedule.interval :
            LET f == schedule.frequency
            IN  /\ f.kind = "Hourly" => s = <<80, 84, 49, 72>>
                /\ f.kind = "Hours3" => s = <<80, 84, 51, 72>>
                /\ f.kind = "Hours6" => s = <<80, 84, 54, 72>>
                /\ f.kind \in {"AutoDaily", "Daily"} => s = <<80, 49, 68>>
                /\ f.kind = "Custom" =>
                     /\ Len(s) >= 4
                     /\ SubSeq(s, 1, 2) = <<80, 84>>
                     /\ s[Len(s)] = 72
                     /\ Numeral(SubSeq(s, 3, Len(s) - 1), f.hours)

\* the interval of a Custom frequency of one digit was asked for
C28_Witness ==
    /\ schedule.at = "chosen"
    /\ schedule.interval # {}
    /\ schedule.frequency.kind = "Custom"
    /\ schedule.frequency.hours \in 1..9

---------------------------------------------------------------------------
(* picker_archive: thumbnails *)

\* an archive thumbnail URL: one ending in -1024x576.jpg or -300x169.jpg
Thumbnail(url) == EndsWith(url, <<45, 49, 48, 50, 52, 120, 53, 55, 54, 46, 106, 112, 103>>) \/ EndsWith(url, <<45, 51, 48, 48, 120, 49, 54, 57, 46, 106, 112, 103>>)

\* the URL minus the size suffix: the 9 or 8 characters before ".jpg"
MinusSuffix(url) ==
    IF EndsWith(url, <<45, 49, 48, 50, 52, 120, 53, 55, 54, 46, 106, 112, 103>>)
    THEN SubSeq(url, 1, Len(url) - 13) \o <<46, 106, 112, 103>>
    ELSE SubSeq(url, 1, Len(url) - 12) \o <<46, 106, 112, 103>>

\* C29: for every archive thumbnail URL (one ending in -1024x576.jpg or
\* -300x169.jpg), get_full_res_url returns Ok with that URL minus the size
\* suffix, the result contains no thumbnail size suffix, and no network
\* request is made.
C29_Thumbnail ==
    (picked.at = "done" /\ Thumbnail(picked.url)) =>
        /\ picked.result.ok
        /\ picked.result.url = MinusSuffix(picked.url)
        /\ ~Contains(picked.result.url, <<45, 49, 48, 50, 52, 120, 53, 55, 54>>)
        /\ ~Contains(picked.result.url, <<45, 51, 48, 48, 120, 49, 54, 57>>)
        /\ ~picked.result.asked

---------------------------------------------------------------------------
(* The rate limiters: the check inside a window *)

\* the check's outcome c allows and is the state w it was given: nothing in
\* memory and nothing in the store was touched
Gate(c, w) == c.ok /\ c.w = w

\* C30: a rate check that allows a request inside an active window (window
\* recorded, not elapsed, count below quota - safety_margin) is a pure gate:
\* it leaves count and window_start unchanged; the count changes only when
\* the caller records a completed request.
C30_PureGate ==
    [][\A src \in Limited :
         ( /\ FetchStep(src)
           /\ WindowStart(session.cfg, src) # {}
           /\ Elapsed(session.cfg, src, now) < Window(src)
           /\ Count(session.cfg, src) < Limit(src) )
         => /\ src = "unsplash" =>
                 Gate(check_unsplash_rate_limit(World(session.cfg), now), World(session.cfg))
            /\ src = "wallhaven" =>
                 Gate(check_wallhaven_rate_limit(World(session.cfg), now), World(session.cfg))
            /\ src = "pexels" =>
                 Gate(check_pexels_rate_limit(World(session.cfg), now), World(session.cfg))
            /\ src \in op'.allowed
            /\ op'.reset = {}
            /\ WindowStart(session'.cfg, src) = WindowStart(session.cfg, src)
            /\ Count(session'.cfg, src) # Count(session.cfg, src) => src \in op'.sent]_vars

\* a fetch command of Wallhaven was allowed two requests short of the
\* refusal, inside the minute, and ended before any request: the count and
\* the window are as they were
C30_Witness ==
    /\ op.kind = "fetch"
    /\ "wallhaven" \in op.allowed
    /\ "wallhaven" \notin op.sent
    /\ op.reset = {}
    /\ session.open
    /\ session.cfg.requests_this_minute = WallhavenLimit - 2
    /\ session.cfg.minute_window_start = {0}
    /\ now < WallhavenWindow

---------------------------------------------------------------------------
(* The rate limiters: first use *)

\* the check's outcome c began a window at t with count 0, wrote it to the
\* store and allows
Begun(c, src, t) ==
    /\ Restarted(c, src, t)
    /\ c.w.disk = c.w.cfg
    /\ c.w.file = "whole"

\* C31: a rate check for a source that has no recorded window starts a window
\* now with count 0, persists this initialisation, and allows the request.
C31_FirstUse ==
    [][\A src \in Limited :
         ( /\ FetchStep(src)
           /\ WindowStart(session.cfg, src) = {} )
         => /\ src = "unsplash" =>
                 Begun(check_unsplash_rate_limit(World(session.cfg), now), src, now)
            /\ src = "wallhaven" =>
                 Begun(check_wallhaven_rate_limit(World(session.cfg), now), src, now)
            /\ src = "pexels" =>
                 Begun(check_pexels_rate_limit(World(session.cfg), now), src, now)
            /\ src \in op'.allowed
            /\ src \notin op'.rejected
            /\ WindowStart(session'.cfg, src) = {now}
            /\ WindowStart(disk', src) = {now}]_vars

\* a fetch command of Pexels, the first after a minute went by, was allowed
\* and ended before any request: window begun now, count 0, in the store
C31_Witness ==
    /\ op.kind = "fetch"
    /\ now > 0
    /\ "pexels" \in op.allowed
    /\ "pexels" \notin op.sent
    /\ op.reset = {}
    /\ disk.hour_window_start = {now}
    /\ disk.requests_this_hour = 0

---------------------------------------------------------------------------
(* The rotation cursor: nothing to detect *)

\* C32: in a tick where the current background cannot be read or is empty,
\* or where it names a file that is not in the pool, manual-change detection
\* changes nothing: the cursor used by the exhaustion check and the normal
\* case equals the persisted cursor at tick start, and no store write is made
\* by the detection step.
C32_Undetected ==
    [][/\ (TickStep /\ pool # <<>> /\ bg \cap DOMAIN pool = {}) => ~op'.seen
       /\ (TickStep /\ ~op'.seen) =>
            /\ ~op'.resync
            /\ op'.used = op'.index0
            /\ op'.kept
            /\ disk'.auto_change_index \in {op'.index0, op'.index0 + 1}
            /\ op'.branch \in {"error", "nopool"} =>
                  disk'.auto_change_index = op'.index0
            /\ (pool # <<>> /\ op'.index0 < PoolSize) =>
                  /\ op'.branch = "normal"
                  /\ op'.target = {SortedFiles(DOMAIN pool)[op'.index0 + 1]}
            /\ (pool # <<>> /\ op'.index0 >= PoolSize) =>
                  \/ op'.branch \in {"exhausted", "error"}
                  \/ op'.branch = "normal" /\ Newest(DOMAIN pool') = {}]_vars

\* a tick found no pool file as background, with the cursor past the first
\* file, and set the file at the cursor
C32_Witness ==
    /\ op.kind = "tick"
    /\ ~op.seen
    /\ op.branch = "normal"
    /\ op.index0 > 0
    /\ op.used = op.index0
    /\ disk.auto_change_index = op.index0 + 1

---------------------------------------------------------------------------
(* auto_change: termination *)

\* how far into auto_change a position is
Rank(at) ==
    CASE at = "Idle" -> 0
      [] at = "Evaluating" -> 1
      [] at = "Resyncing" -> 2
      [] at \in {"Advancing", "Exhausted"} -> 3

\* C33: every tick terminates: starting from Idle it performs at most one
\* resynchronisation pass and returns to Idle through the normal branch, the
\* exhaustion branch or an early return, for every pool, cursor value,
\* reported background and fetch outcome; no tick loops or retries.
C33_Terminates ==
    /\ [](cycle.at \notin {"Idle", "Evaluating"} => cycle.passes <= 1)
    /\ [][\/ /\ cycle.at # "Idle"
               /\ cycle'.at = "Idle"
               /\ op'.kind = "tick"
               /\ op'.branch \in {"normal", "exhausted", "error", "nopool"}
            \/ Rank(cycle'.at) > Rank(cycle.at)]_vars
    /\ (cycle.at # "Idle") ~> (cycle.at = "Idle")

\* a process resynchronised, found the pool exhausted, fetched and exited
C33_Witness ==
    /\ cycle.at = "Idle"
    /\ op.kind = "tick"
    /\ op.resync
    /\ op.branch = "exhausted"

\* the files of the undisturbed rotation that were in the folder first
Shown == {k \in DOMAIN pool : \E i \in 1..MaxShow : k = ShowFiles[i]}

\* C34: with a pool of n >= 1 prefixed files, the cursor at 0, an initial
\* background outside the pool, no manual or pool changes and a reader that
\* always reports the file set last, n consecutive ticks display the pool
\* files in ascending order, each exactly once, and no fetch occurs before
\* tick n + 1.
C34_InOrder ==
    [][(TickStep /\ steps < Cardinality(Shown)) =>
         /\ op'.ret = "ok"
         /\ op'.branch = "normal"
         /\ op'.target = {ShowFiles[steps + 1]}
         /\ bg' = {ShowFiles[steps + 1]}
         /\ ShowFiles[steps + 1] = SortedFiles(Shown)[steps + 1]
         /\ op'.sent = {}
         /\ pool' = pool
         /\ disk'.auto_change_index = steps + 1]_vars

\* three files were displayed by three ticks, the last of them last
C34_Witness ==
    /\ steps = MaxShow
    /\ Cardinality(DOMAIN pool) = MaxShow
    /\ op.kind = "tick"
    /\ op.branch = "normal"
    /\ op.resync
    /\ bg = {ShowFiles[MaxShow]}
    /\ disk.auto_change_index = MaxShow

\* C35: whenever the exhaustion-branch fetch writes a new file, the file set
\* as background in that tick is exactly that file, for every reachable
\* sequence counter (after cleanup_old_data or reset_config too) and every
\* pool.
C35_NewestIsNew ==
    [][(TickStep /\ PoolSize > 0 /\ Written # {}) =>
         (op'.target = Written /\ bg' \in {bg, Written})]_vars

\* C36: a single tick runs at most one silent fetch cycle and writes at most
\* one new file, a tick that finds the pool empty with a non-zero cursor
\* included.
C36_OneFetch ==
    [][TickStep => (op'.fetches <= 1 /\ Cardinality(Written) <= 1)]_vars

\* the commands that touch the flag or the task
TaskCommands == {"schedule", "test-flicker", "unschedule", "reset", "silent-uninstall"}

\* C37: after every command (schedule, test-flicker, unschedule, reset,
\* silent-uninstall) the persisted auto_change_enabled is true exactly when
\* the scheduled task exists, also when the creation or the deletion of the
\* task fails part-way.
C37_FlagIsTask ==
    op.kind \in TaskCommands => (disk.auto_change_enabled <=> task)

\* C38: whenever a task exists and the OS deletion succeeds, unschedule
\* removes the task, in every reachable config state, after a full reset or
\* a store load that fell back to the defaults too.
C38_Unschedule ==
    [][(op'.kind = "unschedule" /\ task /\ op'.branch # "failed") => ~task']_vars

\* max(0, 50 - r) as a u32
UsedOf(r) == IF Below(U32(UnsplashQuota), r) THEN U32(0) ELSE wrapping_sub(U32(UnsplashQuota), r)

\* C40: for every X-Ratelimit-Remaining value r of the u32 range,
\* parse_rate_limit_headers stores requests_used = max(0, 50 - r): the stored
\* value never wraps modulo 2^32, the computation never aborts, and
\* requests_used <= 50.
C40_Saturates ==
    header.at = "parsed" =>
      /\ header.out = "stored"
      /\ header.used = UsedOf(header.remaining)
      /\ ~Below(U32(UnsplashQuota), header.used)

\* a command of the open session other than reset wrote the store
SessionWrite ==
    /\ session.open
    /\ session'.open
    /\ op'.kind \notin {"idle", "tick", "start", "reset"}
    /\ disk' # disk

\* C39: when a tick runs while an interactive session, which loaded the
\* store once at startup, is open, a later store write of the session never
\* reverts what the tick persisted: the cursor and the sequence counter in
\* the store stay at or above the tick's values.
C39_NoRevert ==
    [][SessionWrite =>
         /\ disk'.auto_change_index >= disk.auto_change_index
         /\ disk'.next_seq_number >= disk.next_seq_number]_vars

====
